---- MODULE Spec2Model ----
(***************************************************************************)
(* Verification model of github-data-collector.                            *)
(*                                                                         *)
(* Part 1: the time-sliced search driver (RepositoryCollector and          *)
(* CollectionState in src/src/github_collector/repository_collector.py)    *)
(* together with the command line entry point that runs it                 *)
(* (src/src/github_collector/cli/collect_command.py).                      *)
(*                                                                         *)
(* Dates are whole days counted from the earliest start date.  The page    *)
(* size (per_page=100) and the page cap (page > 10) of the source are      *)
(* scaled down to PerPage and MaxPage; the result cap of the search        *)
(* endpoint (1000 = 10 pages of 100) is PerPage * MaxPage.  Every formula  *)
(* is stated in terms of these names.                                      *)
(*                                                                         *)
(* Part 2: the API client (GitHubClient, GitHubTokenPool and GitHubAPI in  *)
(* src/src/github_collector/api/github_api.py): token selection, the       *)
(* rate-limit gate, the retry loop and the response cache.  Time is in     *)
(* whole seconds; the hourly quota (5000) is scaled down to Quota.         *)
(* ApiSpec explores one process with a lossy network, CacheSpec the cache  *)
(* with one token, PoolSpec two threads inside _get_client.                *)
(*                                                                         *)
(* Part 3: the store and the ingestion of a page of search results         *)
(* (GitHubDatabase in src/src/github_collector/database/database.py,       *)
(* OwnerProcessor in src/src/github_collector/owners/owner_processor.py,   *)
(* _process_repositories_batch of the collector).  Rows carry the number   *)
(* of the commit that wrote them.  IngestSpec explores pages of one or two *)
(* summaries with failing profile requests and failing commits; the state  *)
(* of the session after a failed commit that is not rolled back is left    *)
(* open.                                                                   *)
(*                                                                         *)
(* Part 4: the enrichment (scripts/enrich_repository_stats.py,             *)
(* GraphQLHandler.fetch_repo_stats, map_and_update_stats).  EnrichSpec     *)
(* explores runs of the script over a store of two repositories, with      *)
(* every response of the GraphQL endpoint and with kills of the process.   *)
(*                                                                         *)
(* Part 5: functions looked at alone.  CallSpec draws the arguments of     *)
(* fetch_repo_stats, of main of the enrichment script, of                  *)
(* _calculate_time_periods and of _adjust_period_size, and applies them.   *)
(* The subdivision counts instants (microseconds in the source, scaled     *)
(* down to TicksPerDay per day).  LiveSpec is Spec with weak fairness of   *)
(* the steps of a run of the collector.                                    *)
(***************************************************************************)
EXTENDS Integers, Sequences, FiniteSets, TLC

\* ------------------------------------------------------------------ bounds
\* number of process starts (runs of the collect command) that are explored
MaxRuns == 3
\* results per search page (per_page=100 in the source, scaled down)
PerPage == 2
\* last page the driver may ask for (page > 10 in the source, scaled down)
MaxPage == 3

\* --------------------------------------------------------------- constants
\* initial_period_days of _calculate_time_periods
PeriodDays == 30
\* exit code of main() when it returns normally
ExitSuccess == 0

\* results the search endpoint serves per query: MaxPage pages of PerPage
MaxResults == PerPage * MaxPage

Min(a, b) == IF a <= b THEN a ELSE b

\* total_count is None until the first answer of a window has been read
None == -1

\* no (index, page) position
NoPos == <<-1, -1>>

\* [start_date, end_date] arguments a run may be started with
Ranges == {<<0, 60>>, <<30, 60>>}

\* every window the initial partitioning of a range of Ranges can produce
Windows == {<<0, 30>>, <<30, 60>>}

\* total_count values the search endpoint may report for a window
TotalCounts == {0, 1, 2 * PerPage, MaxResults, MaxResults + 1, 2 * MaxResults + PerPage}

\* max_repos arguments; 0 stands for None (no limit)
Limits == {0, PerPage + 1}

VARIABLES
    state_file,       \* contents of collection_state.json
    store,            \* ids of the rows of the repositories table
    api_total,        \* search endpoint: total_count of each window
    api_fail,         \* search endpoint: (window, page) requests that fail
    max_repos,        \* --limit of the runs (0: none)
    start_date,       \* start_date argument of the current (or last) run
    end_date,         \* end_date argument of the current (or last) run
    pc,               \* position of the process; "idle": no process
    state,            \* CollectionState.state of the running process
    page,             \* local of _collect_repositories_in_period
    collected_count,  \* local of _collect_repositories_in_period
    total_count,      \* local of _collect_repositories_in_period
    items,            \* results["items"] of the last search answer
    total_collected,  \* local of collect_repositories
    requested,        \* pages requested for the current window: <<page, ok>>
    runs,             \* number of runs started so far
    outcome,          \* how the last run ended: "none", "done", "interrupted"
    exit_code,        \* exit code of the last run
    load_failed,      \* _load_state of this run hit unreadable JSON
    resumed_at,       \* (index, page) of the checkpoint this run resumed
    first_fetch,      \* (index, page) of the first search request of this run
    rerun,            \* this run repeats a completed run with the same inputs
    ranges_used       \* every [start_date, end_date] requested so far

VARIABLES
    tokens,           \* the token list GitHubAPI was constructed with
    token_info,       \* GitHubTokenPool.token_info
    clients,          \* rate_limit_remaining / rate_limit_reset of each client
    server,           \* api.github.com: remaining quota and reset per token
    now,              \* the wall clock, in seconds
    cache,            \* the files of cache_dir, by cache key
    api_pc,           \* position of the caller of GitHubAPI.request
    attempt,          \* loop variable of GitHubAPI.request
    req,              \* the request of the current call
    calls,            \* number of calls of GitHubAPI.request so far
    api_result,       \* what the last call returned or raised
    hist,             \* what the last attempt did (record, see NoHist)
    threads           \* concurrent callers of _get_client: position, locals

\* the variables of the search driver (part 1)
collectorvars == <<state_file, store, api_total, api_fail, max_repos,
                   start_date, end_date, pc, state, page, collected_count,
                   total_count, items, total_collected, requested, runs,
                   outcome, exit_code, load_failed, resumed_at, first_fetch,
                   rerun, ranges_used>>

\* the variables of the API client (part 2)
apivars == <<tokens, token_info, clients, server, now, cache, api_pc,
             attempt, req, calls, api_result, hist, threads>>

VARIABLES
    contributors,     \* table contributors: a row (or NoRow) per owner
    organizations,    \* table organizations: a row (or NoRow) per owner
    repositories,     \* table repositories: a row (or NoRow) per id
    session,          \* GitHubDatabase.session: "ok" or "inactive"
    clock,            \* number of rows inserted so far
    known_owners,     \* OwnerProcessor._known_owners
    batch_owners,     \* OwnerProcessor._batch_owners
    org_cache,        \* logins in OwnerProcessor._org_cache
    contributor_cache, \* logins in OwnerProcessor._contributor_cache
    ing_pc,           \* position in _process_repositories_batch
    repositories_data, \* the page being ingested
    unknown_logins,   \* local of process_contributors_batch
    position,         \* index of the next summary of the page
    batches_done,     \* pages ingested so far
    ing               \* what the ingestion did (record, see NoIng)

VARIABLES
    checkpoint,       \* contents of enrich_checkpoint.txt
    en_pc,            \* position of scripts/enrich_repository_stats.py
    en_runs,          \* number of starts of the script so far
    batches,          \* local of main: the batches of this run
    idx,              \* local of main: index of the current batch
    start_batch_idx,  \* local of fetch_repo_stats
    en_attempt,       \* loop variable of the retry loop
    success,          \* local of fetch_repo_stats
    en_results,       \* local of fetch_repo_stats: results
    all_stats,        \* local of main
    failed_batches,   \* local of main: indexes of the failed batches
    en                \* what the enrichment did (record, see NoEn)

VARIABLES
    args,             \* the arguments of a function that is looked at alone
    returned          \* what it returned for them

\* the variables of the store and of the ingestion of a page (part 3)
ingestvars == <<contributors, organizations, repositories, session, clock,
                known_owners, batch_owners, org_cache, contributor_cache,
                ing_pc, repositories_data, unknown_logins, position,
                batches_done, ing>>

\* the variables of the enrichment script (part 4)
enrichvars == <<checkpoint, en_pc, en_runs, batches, idx, start_batch_idx,
                en_attempt, success, en_results, all_stats, failed_batches, en>>

\* the variables of the functions that are looked at alone (part 5)
callvars == <<args, returned>>

\* what an action of the search driver leaves alone
beyond_collector == <<apivars, ingestvars, enrichvars, callvars>>

\* what an action of the API client leaves alone
beyond_api == <<collectorvars, ingestvars, enrichvars, callvars>>

vars == <<collectorvars, apivars, ingestvars, enrichvars, callvars>>

\* ------------------------------------------------------- dates and records
\* datetime.isoformat(): the text form a date has inside the checkpoint
IsoFormat(d) == <<"iso", d>>

\* datetime.fromisoformat(): undefined for anything that is not such a text
FromIsoFormat(s) == IF s[1] = "iso" THEN s[2] ELSE CHOOSE x \in {} : TRUE

\* the JSON null that start_date and end_date hold in the default state
NoDate == <<"null", 0>>

\* the checkpoint file does not exist
NoFile == [kind |-> "absent"]

\* the checkpoint file exists and json.load raises on it
Corrupt == [kind |-> "corrupt"]

\* the checkpoint file written by json.dump(self.state)
Json(st) == [kind |-> "json", data |-> st]

\* the default state of _load_state
DefaultState ==
    [time_periods |-> <<>>, current_period_index |-> 0,
     current_period_page |-> 1, repositories_collected |-> 0,
     start_date |-> NoDate, end_date |-> NoDate]

\* CollectionState._load_state: the default state when the file is missing
\* or when reading it raises
LoadState(file) == IF file.kind = "json" THEN file.data ELSE DefaultState

\* mutant of ResetState: the requested range is not recorded
ResetState_NoDates(s, e) ==
    [time_periods |-> <<>>, current_period_index |-> 0,
     current_period_page |-> 1, repositories_collected |-> 0,
     start_date |-> NoDate, end_date |-> NoDate]

\* CollectionState.reset: the state of a new collection
ResetState(s, e) ==
    [time_periods |-> <<>>, current_period_index |-> 0,
     current_period_page |-> 1, repositories_collected |-> 0,
     start_date |-> IsoFormat(s), end_date |-> IsoFormat(e)]

\* the loop of _calculate_time_periods from current_start on
RECURSIVE PeriodsFrom(_, _)
PeriodsFrom(current_start, e) ==
    IF current_start < e
    THEN LET current_end == Min(current_start + PeriodDays, e)
         IN  <<<<current_start, current_end>>>> \o PeriodsFrom(current_end, e)
    ELSE <<>>

\* RepositoryCollector._calculate_time_periods
CalculateTimePeriods(s, e) == PeriodsFrom(s, e)

\* CollectionState.set_time_periods: the list as it is stored
PeriodDicts(periods) ==
    [i \in 1..Len(periods) |->
        [start |-> IsoFormat(periods[i][1]), end |-> IsoFormat(periods[i][2])]]

\* CollectionState.get_current_period is not None
HasCurrentPeriod(st) ==
    /\ Len(st.time_periods) > 0
    /\ st.current_period_index < Len(st.time_periods)

\* CollectionState.get_current_period (indices are 0-based in the source)
GetCurrentPeriod(st) ==
    LET period == st.time_periods[st.current_period_index + 1]
    IN  <<FromIsoFormat(period.start), FromIsoFormat(period.end)>>

\* the resume test of collect_repositories (resume is True in every caller)
ShouldResume(st) == Len(st.time_periods) > 0 /\ HasCurrentPeriod(st)

\* the page _collect_repositories_in_period starts a window with
StartPage(st) == st.current_period_page

\* CollectionState.next_period finds another period
HasNextPeriod(st) == st.current_period_index + 1 < Len(st.time_periods)

\* mutant of NextPeriod: the page of the finished window is kept
NextPeriod_KeepPage(st) ==
    [st EXCEPT !.current_period_index = st.current_period_index + 1]

\* CollectionState.next_period: the state it saves
NextPeriod(st) ==
    [st EXCEPT !.current_period_index = st.current_period_index + 1,
               !.current_period_page = 1]

\* state.update(repositories_collected=..., current_period_page=page) after
\* a batch of n repositories of page p
UpdateAfterBatch(st, n, p) ==
    [st EXCEPT !.repositories_collected = st.repositories_collected + n,
               !.current_period_page = p]

\* mutant of AdvancePage: the checkpoint runs one page ahead
AdvancePage_Ahead(st, p) == [st EXCEPT !.current_period_page = p + 1]

\* state.update(current_period_page=page) with the incremented page
AdvancePage(st, p) == [st EXCEPT !.current_period_page = p]

\* "if max_repos and total >= max_repos"
LimitReached(limit, total) == limit /= 0 /\ total >= limit

\* mutant of WindowExhausted: the window is left one page early
WindowExhausted_Early(n, p) == n < PerPage \/ p >= MaxPage

\* mutant of WindowExhausted: the page cap is not tested
WindowExhausted_Uncapped(n, p) == n < PerPage

\* "if len(items) < 100 or page > 10" with the page already incremented
WindowExhausted(n, p) == n < PerPage \/ p > MaxPage

\* ------------------------------------------------------ the search endpoint
\* id of the repository with rank k (by stars) among those created in w
RepoId(w, k) == <<w[1], w[2], k>>

\* ranks served on page p of a query with `total` hits
PageRanks(total, p) ==
    {k \in 1..Min(total, MaxResults) : (p - 1) * PerPage < k /\ k <= p * PerPage}

\* GitHubAPI.search_repositories for window w: the answer or an error
SearchApi(w, p) ==
    IF <<w, p>> \in api_fail
    THEN [ok |-> FALSE, total_count |-> 0, items |-> {}]
    ELSE [ok |-> TRUE, total_count |-> api_total[w],
          items |-> {RepoId(w, k) : k \in PageRanks(api_total[w], p)}]

\* RepositoryCollector._search_repositories_in_period: a GitHubAPIError is
\* logged and turned into an empty answer
SearchRepositoriesInPeriod(w, p) ==
    LET results == SearchApi(w, p)
    IN  IF results.ok THEN results
        ELSE [ok |-> FALSE, total_count |-> 0, items |-> {}]

\* RepositoryCollector._process_repository: a repository whose id is in the
\* store is skipped, any other is inserted
ProcessRepository(rows, repo) ==
    IF repo \in rows THEN rows ELSE rows \cup {repo}

\* RepositoryCollector._process_repositories_batch over the first n items
RECURSIVE ProcessPrefix(_, _, _)
ProcessPrefix(rows, its, n) ==
    IF n = 0 \/ its = {}
    THEN rows
    ELSE LET first == CHOOSE r \in its : \A q \in its : r[3] <= q[3]
         IN  ProcessPrefix(ProcessRepository(rows, first), its \ {first}, n - 1)

\* RepositoryCollector._process_repositories_batch
ProcessRepositoriesBatch(rows, its) == ProcessPrefix(rows, its, Cardinality(its))

\* ------------------------------------------------- API client: the values
\* Part 2 of the model: GitHubAPI, GitHubTokenPool and GitHubClient of
\* src/src/github_collector/api/github_api.py, with api.github.com as the
\* environment.  Times are seconds.  The hourly quota (5000) is scaled down
\* to Quota.

\* the hourly quota of one token: the 5000 of GitHubClient.__init__,
\* GitHubTokenPool.__init__ and get_best_token
Quota == 3
\* number of calls of GitHubAPI.request that are explored
MaxCalls == 2
\* the assumed time to the next reset in get_best_token
Hour == 3600
\* the length of one sleep of the wait loop of get_best_token
PollSeconds == 30
\* the age above which a cache file is no longer used
CacheTtl == 86400
\* default of the parameter retries of GitHubAPI.request
Retries == 3

\* the token lists GitHubAPI is constructed with.  The constructor takes
\* any list; setup_api_client of the command line never passes the empty one.
TokenLists == {<<>>, <<1>>, <<1, 2>>}

\* the indices of the tokens of a list, in the order of the list
Toks(l) == 1..Len(l)

\* the requests: endpoint and params (a dict, in insertion order); parameter
\* names are numbered.  The first two differ in insertion order only.
Requests ==
    {[endpoint |-> "/search/repositories", params |-> <<<<1, 1>>, <<2, 1>>>>],
     [endpoint |-> "/search/repositories", params |-> <<<<2, 1>>, <<1, 1>>>>],
     [endpoint |-> "/repos/o/r", params |-> <<>>]}

\* the request the rate-limit part of the model repeats
SearchRequest ==
    [endpoint |-> "/search/repositories", params |-> <<<<1, 1>>, <<2, 1>>>>]

\* the JSON documents a 200 response carries
Bodies == {"[]", "a", "b"}

\* the {} that request returns for a 404
EmptyDoc == "{}"

\* the None that _get_from_cache returns when it has no document
NoDocument == "None"

\* bool(document) in Python
Truthy(d) == d \notin {"{}", "[]", "None"}

\* the calls of the cache part of the model: request and use_cache
CacheCalls == {<<r, TRUE>> : r \in Requests} \cup {<<SearchRequest, FALSE>>}

\* time since the previous call of GitHubAPI.request
Gaps == {0, CacheTtl}

\* no cache file for a key
NoEntry == [kind |-> "absent"]

\* no rate-limit headers (no response, or none seen)
NoHeaders == <<None, None>>

\* api_result while a call is running or before the first call
NoResult == "none"

\* the record of what the last attempt did; stored and drained are kept for
\* the whole run
NoHist ==
    [token |-> None,          \* token of the client the attempt used
     seen |-> <<>>,           \* token_info as the selection saw it
     pool_waited |-> FALSE,   \* get_best_token waited for a reset
     acquired_at |-> None,    \* time at which get_best_token returned
     gate_waited |-> FALSE,   \* _wait_for_rate_limit slept
     from_cache |-> FALSE,    \* the attempt was answered from the cache
     status |-> "none",       \* HTTP status of the response; "error": none
     headers |-> NoHeaders,   \* X-RateLimit-Remaining, X-RateLimit-Reset
     tries |-> 0,             \* HTTP requests sent by the current call
     prev_status |-> "none",  \* status of the previous attempt of this call
     prev_token |-> None,     \* token of the previous attempt of this call
     prev_other |-> FALSE,    \* then another token had remaining > 0
     other |-> FALSE,         \* other tokens had remaining > 0 at this 403
     other_seen |-> FALSE,    \* other was true at some 403 of this call
     looked_at |-> None,      \* time of the cache lookup
     drained |-> FALSE,       \* the quota of a token was used up elsewhere
     stored |-> <<>>]         \* by key: last 200 body written with its time

\* the API client is not part of the specification of the search driver
NoApi ==
    /\ tokens = <<>>
    /\ token_info = <<>>
    /\ clients = <<>>
    /\ server = <<>>
    /\ now = 0
    /\ cache = <<>>
    /\ api_pc = "unused"
    /\ attempt = 0
    /\ req = <<>>
    /\ calls = 0
    /\ api_result = NoResult
    /\ hist = NoHist
    /\ threads = <<>>

\* -------------------------------------------- store and ingestion: values
\* the owners that appear in the search results, by login
Owners == {"u", "o"}

\* the login of a summary without owner data, the key of no organization
NoOwner == ""

\* owner.type of the search summary
OwnerType(w) == IF w = "u" THEN "User" ELSE "Organization"

\* the repositories the search may return, by id
RepoIds == {1, 2, 3}

\* owner.login of the search summary of a repository; repository 3 comes
\* without owner data
RepoOwner(i) == IF i = 1 THEN "u" ELSE IF i = 2 THEN "o" ELSE NoOwner

\* the count fields of a search summary (stargazers_count, watchers_count,
\* forks_count, open_issues_count), as one value
Counts == {1, 2}

\* a search summary: the keys of the search endpoint; the enrichment
\* aggregates are not among them.  The counts of repository 1 change
\* between two searches.
Summaries == {s \in [id : RepoIds, counts : Counts] :
                 s.id /= 1 => s.counts = 1}

\* the pages of search results that are ingested
Pages ==
    {<<a>> : a \in Summaries}
        \cup {p \in Summaries \X Summaries : p[1].id < p[2].id}

\* the value the enrichment computes for pull_requests_count, commits_count
\* and contributors_count, as one value
Stat == 5

\* no row with this key
NoRow == [kind |-> "none"]

\* no summary has been processed
NoSummary == [id |-> 0, counts |-> 0]

\* pages of search results that are ingested in all
MaxBatches == 2

\* how a profile request ends: a profile, the empty document of a 404, or
\* GitHubAPIError
FetchOutcomes == {"ok", "empty", "error"}

\* the commit that raises in one step of the ingestion, if any
Faults == {"none", "profile", "owner", "organization", "repository"}

\* the session after a commit has raised and nobody called rollback():
\* usable again, or refusing every statement
SessionStates == {"ok", "inactive"}

\* nothing has been ingested
NoIng ==
    [requested_known |-> FALSE, \* a profile was requested for a known login
     fetched |-> [w \in Owners |-> 0],  \* successful profile fetches
     inserted |-> {},          \* logins fetched and inserted by this process
     failed_fetch |-> {},      \* owners whose fetch failed on this page
     unknown |-> {},           \* owners not in the store when the page began
     written |-> {},           \* ids written while this page was ingested
     write_failed |-> FALSE,   \* a commit raised on this page
     after_failure |-> {},     \* ids written by later passes of the page
     last |-> NoSummary,       \* the summary of the last _process_repository
     existed |-> FALSE,        \* its id was in the store before
     raised |-> FALSE]         \* it ended in the except clause

\* the store and the ingestion are not part of the other specifications
NoIngest ==
    /\ contributors = <<>>
    /\ organizations = <<>>
    /\ repositories = <<>>
    /\ session = "ok"
    /\ clock = 0
    /\ known_owners = {}
    /\ batch_owners = {}
    /\ org_cache = {}
    /\ contributor_cache = {}
    /\ ing_pc = "unused"
    /\ repositories_data = <<>>
    /\ unknown_logins = {}
    /\ position = 0
    /\ batches_done = 0
    /\ ing = NoIng

\* ------------------------------------------------------ enrichment: values
\* the responses of the GraphQL endpoint to one batch: the data with
\* databaseId, the data with the node id only, the data in which the last
\* repository of the batch has "defaultBranchRef": null (a repository
\* without commits), a 5xx, a network error, a 403 with
\* X-RateLimit-Remaining 0
GraphQLResponses ==
    {"data", "node_id_only", "no_branch", "5xx", "network", "rate_limit"}

\* the answers of the endpoint about one repository: its data with
\* databaseId, its data with the node id only, its data with
\* "defaultBranchRef": null, and no answer within the timeout to any request
\* that asks for it
RepoAnswers == {"data", "node_id_only", "no_branch", "timeout"}

\* nothing has been enriched
NoEn ==
    [reported |-> <<>>,        \* per completed batch of the run: index in
                               \* main's list, outcome, failures, rate limits
     failures |-> 0,           \* network errors and 5xx of the current batch
     rate_limited |-> 0,       \* rate-limit 403s of the current batch
     fetched |-> {},           \* indexes of the batches fetched with success
     node_only |-> {},         \* indexes of the batches answered without
                               \* databaseId
     stored |-> None,          \* the checkpoint this run found at its start
     skipped |-> {},           \* indexes this run skipped
     finished |-> FALSE,       \* the run came to the end of main
     stats |-> <<>>,           \* argument of the last map_and_update_stats
     updated |-> {},           \* ids of the rows that call changed
     failure_file |-> {}]      \* ids written to failed_repo_ids_<today>.txt

\* the enrichment is not part of the other specifications
NoEnrich ==
    /\ checkpoint = None
    /\ en_pc = "unused"
    /\ en_runs = 0
    /\ batches = <<>>
    /\ idx = 0
    /\ start_batch_idx = 0
    /\ en_attempt = 0
    /\ success = FALSE
    /\ en_results = <<>>
    /\ all_stats = <<>>
    /\ failed_batches = <<>>
    /\ en = NoEn

\* no function is looked at alone
NoCall ==
    /\ args = [fn |-> "none"]
    /\ returned = [fn |-> "none"]

\* ------------------------------------------------------------------- Init
Init ==
    /\ state_file \in {NoFile, Corrupt}
    /\ store = {}
    /\ api_total \in [Windows -> TotalCounts]
    /\ api_fail \in {{}, {<<<<0, 30>>, 2>>}, {<<<<30, 60>>, 1>>}}
    /\ max_repos \in Limits
    /\ start_date = 0
    /\ end_date = 0
    /\ pc = "idle"
    /\ state = DefaultState
    /\ page = 1
    /\ collected_count = 0
    /\ total_count = None
    /\ items = {}
    /\ total_collected = 0
    /\ requested = <<>>
    /\ runs = 0
    /\ outcome = "none"
    /\ exit_code = ExitSuccess
    /\ load_failed = FALSE
    /\ resumed_at = NoPos
    /\ first_fetch = NoPos
    /\ rerun = FALSE
    /\ ranges_used = {}
    /\ NoApi
    /\ NoIngest
    /\ NoEnrich
    /\ NoCall

\* ---------------------------------------------------------------- actions
\* the locals of a process that is not inside a window
NoLocals ==
    /\ page' = 1
    /\ collected_count' = 0
    /\ total_count' = None
    /\ items' = {}
    /\ requested' = <<>>

\* main() -> non_interactive_mode -> RepositoryCollector() and the head of
\* collect_repositories: the checkpoint is loaded, then either resumed or
\* replaced by the reset state of a new collection (first save)
StartRun(r) ==
    /\ pc = "idle"
    /\ runs < MaxRuns
    /\ runs' = runs + 1
    /\ start_date' = r[1]
    /\ end_date' = r[2]
    /\ load_failed' = (state_file = Corrupt)
    /\ rerun' = (outcome = "done" /\ r = <<start_date, end_date>>)
    /\ ranges_used' = ranges_used \cup {r}
    /\ total_collected' = 0
    /\ first_fetch' = NoPos
    /\ NoLocals
    /\ LET loaded == LoadState(state_file)
       IN  IF ShouldResume(loaded)
           THEN /\ state' = loaded
                /\ resumed_at' = <<loaded.current_period_index,
                                   loaded.current_period_page>>
                /\ pc' = "loop"
                /\ UNCHANGED state_file
           ELSE /\ state' = ResetState(r[1], r[2])
                /\ resumed_at' = NoPos
                /\ state_file' = Json(state')
                /\ pc' = "set_periods"
    /\ UNCHANGED <<store, api_total, api_fail, max_repos, outcome, exit_code>>
    /\ UNCHANGED beyond_collector

\* collect_repositories: _calculate_time_periods and state.set_time_periods
SetTimePeriods ==
    /\ pc = "set_periods"
    /\ state' = [state EXCEPT !.time_periods =
                    PeriodDicts(CalculateTimePeriods(start_date, end_date))]
    /\ state_file' = Json(state')
    /\ pc' = "loop"
    /\ UNCHANGED <<store, api_total, api_fail, max_repos, start_date, end_date,
                   page, collected_count, total_count, items, total_collected,
                   requested, runs, outcome, exit_code, load_failed, resumed_at,
                   first_fetch, rerun, ranges_used>>
    /\ UNCHANGED beyond_collector

\* the process leaves collect_repositories normally and main() returns 0
Finish ==
    /\ pc' = "idle"
    /\ outcome' = "done"
    /\ exit_code' = ExitSuccess
    /\ state' = DefaultState
    /\ total_collected' = 0
    /\ NoLocals

\* top of the loop of collect_repositories: get_current_period and the
\* head of _collect_repositories_in_period
LoopTop ==
    /\ pc = "loop"
    /\ IF HasCurrentPeriod(state)
       THEN /\ page' = StartPage(state)
            /\ collected_count' = 0
            /\ total_count' = None
            /\ items' = {}
            /\ requested' = <<>>
            /\ pc' = "search"
            /\ UNCHANGED <<state, total_collected, outcome, exit_code>>
       ELSE Finish
    /\ UNCHANGED <<state_file, store, api_total, api_fail, max_repos,
                   start_date, end_date, runs, load_failed, resumed_at, first_fetch,
                   rerun, ranges_used>>
    /\ UNCHANGED beyond_collector

\* _collect_repositories_in_period: one search request and the test for an
\* empty page.  Neither except branch of the source can be entered, because
\* _search_repositories_in_period and monitor_rate_limit catch their errors;
\* the block that splits the window stands after the `continue` of the
\* second except branch and is never executed.
Search ==
    /\ pc = "search"
    /\ LET results == SearchRepositoriesInPeriod(GetCurrentPeriod(state), page)
       IN  /\ total_count' = IF total_count = None THEN results.total_count
                             ELSE total_count
           /\ requested' = Append(requested, <<page, results.ok>>)
           /\ items' = results.items
           /\ first_fetch' = IF first_fetch = NoPos
                             THEN <<state.current_period_index, page>>
                             ELSE first_fetch
           /\ pc' = IF results.items = {} THEN "after_period" ELSE "ingest"
    /\ UNCHANGED <<state_file, store, api_total, api_fail, max_repos,
                   start_date, end_date, state, page, collected_count,
                   total_collected, runs, outcome, exit_code, load_failed,
                   resumed_at, rerun, ranges_used>>
    /\ UNCHANGED beyond_collector

\* _collect_repositories_in_period: _process_repositories_batch(items)
ProcessBatch ==
    /\ pc = "ingest"
    /\ store' = ProcessRepositoriesBatch(store, items)
    /\ collected_count' = collected_count + Cardinality(items)
    /\ pc' = "update1"
    /\ UNCHANGED <<state_file, api_total, api_fail, max_repos, start_date,
                   end_date, state, page, total_count, items, total_collected,
                   requested, runs, outcome, exit_code, load_failed, resumed_at,
                   first_fetch, rerun, ranges_used>>
    /\ UNCHANGED beyond_collector

\* _collect_repositories_in_period: state.update(repositories_collected,
\* current_period_page=page) and the max_repos test
UpdateCollected ==
    /\ pc = "update1"
    /\ state' = UpdateAfterBatch(state, Cardinality(items), page)
    /\ state_file' = Json(state')
    /\ pc' = IF LimitReached(max_repos, state'.repositories_collected)
             THEN "after_period" ELSE "update2"
    /\ UNCHANGED <<store, api_total, api_fail, max_repos, start_date, end_date,
                   page, collected_count, total_count, items, total_collected,
                   requested, runs, outcome, exit_code, load_failed, resumed_at,
                   first_fetch, rerun, ranges_used>>
    /\ UNCHANGED beyond_collector

\* _collect_repositories_in_period: page += 1, state.update(
\* current_period_page=page) and the test for the end of the window
NextPage ==
    /\ pc = "update2"
    /\ page' = page + 1
    /\ state' = AdvancePage(state, page')
    /\ state_file' = Json(state')
    /\ pc' = IF WindowExhausted(Cardinality(items), page')
             THEN "after_period" ELSE "search"
    /\ UNCHANGED <<store, api_total, api_fail, max_repos, start_date, end_date,
                   collected_count, total_count, items, total_collected,
                   requested, runs, outcome, exit_code, load_failed, resumed_at,
                   first_fetch, rerun, ranges_used>>
    /\ UNCHANGED beyond_collector

\* collect_repositories after _collect_repositories_in_period has returned:
\* total_collected, the max_repos test and state.next_period
AfterPeriod ==
    /\ pc = "after_period"
    /\ LET total == total_collected + collected_count
       IN  IF LimitReached(max_repos, total) \/ ~HasNextPeriod(state)
           THEN /\ Finish
                /\ UNCHANGED state_file
           ELSE /\ total_collected' = total
                /\ state' = NextPeriod(state)
                /\ state_file' = Json(state')
                /\ pc' = "loop"
                /\ UNCHANGED <<page, collected_count, total_count, items,
                               requested, outcome, exit_code>>
    /\ UNCHANGED <<store, api_total, api_fail, max_repos, start_date, end_date,
                   runs, load_failed, resumed_at, first_fetch, rerun,
                   ranges_used>>
    /\ UNCHANGED beyond_collector

\* the next step of the process writes the checkpoint file
AboutToSave ==
    \/ pc \in {"set_periods", "update1", "update2"}
    \/ /\ pc = "after_period"
       /\ ~LimitReached(max_repos, total_collected + collected_count)
       /\ HasNextPeriod(state)

\* the operator interrupts the process (KeyboardInterrupt).  The interrupt
\* ends the step the process is in: a batch stops after any number n of its
\* repositories; CollectionState.save has opened the file for writing (which
\* truncates it) and has or has not written the JSON text.  Both callers of
\* collect_repositories catch the interrupt, print a message and return, so
\* main() returns 0.
Interrupt ==
    /\ pc /= "idle"
    /\ \/ /\ pc = "ingest"
          /\ \E n \in 0..(Cardinality(items) - 1) :
                store' = ProcessPrefix(store, items, n)
          /\ UNCHANGED state_file
       \/ /\ AboutToSave
          /\ state_file' = Corrupt
          /\ UNCHANGED store
       \/ /\ pc /= "ingest"
          /\ UNCHANGED <<state_file, store>>
    /\ pc' = "idle"
    /\ outcome' = "interrupted"
    /\ exit_code' = ExitSuccess
    /\ state' = DefaultState
    /\ total_collected' = 0
    /\ NoLocals
    /\ UNCHANGED <<api_total, api_fail, max_repos, start_date, end_date, runs,
                   load_failed, resumed_at, first_fetch, rerun, ranges_used>>
    /\ UNCHANGED beyond_collector

Next ==
    \/ \E r \in Ranges : StartRun(r)
    \/ SetTimePeriods
    \/ LoopTop
    \/ Search
    \/ ProcessBatch
    \/ UpdateCollected
    \/ NextPage
    \/ AfterPeriod
    \/ Interrupt

Spec == Init /\ [][Next]_vars

\* ------------------------------------------------------------------ claims
\* the window the process is in
CurrentWindow == GetCurrentPeriod(state)

\* a run has ended normally
RunDone == pc = "idle" /\ outcome = "done"

\* what one window yields to a run that is never interrupted and that
\* starts the window at page p
RECURSIVE WindowYield(_, _)
WindowYield(w, p) ==
    IF p > MaxPage
    THEN {}
    ELSE LET its == SearchRepositoriesInPeriod(w, p).items
         IN  IF its = {} THEN {}
             ELSE its \cup (IF Cardinality(its) < PerPage THEN {}
                            ELSE WindowYield(w, p + 1))

\* the store an uninterrupted run over [s, e] without limit ends with
UninterruptedResult(s, e) ==
    LET periods == CalculateTimePeriods(s, e)
    IN  UNION {WindowYield(periods[i], 1) : i \in 1..Len(periods)}

C3_NoPaginationAboveCap ==
    pc = "ingest" => total_count <= MaxResults

\* the pages requested so far for the current window are 1, 2, ... in order
PagesInOrder == \A i \in 1..Len(requested) : requested[i][1] = i

\* every request of the current window was answered
AllAnswered == \A i \in 1..Len(requested) : requested[i][2]

\* the current window was left (or is being left) and had been started at
\* page 1 with a total_count within the result cap
WindowLeft ==
    /\ pc = "after_period"
    /\ Len(requested) > 0
    /\ requested[1][1] = 1
    /\ api_total[CurrentWindow] <= MaxResults

\* C4 (as claimed): such a window, when it has at least one result, gets
\* exactly min(MaxPage, ceil(total / PerPage)) requests, for the pages
\* 1, 2, ...
C4_PagesAsClaimed ==
    (WindowLeft /\ AllAnswered /\ max_repos = 0
       /\ api_total[CurrentWindow] >= 1) =>
        /\ PagesInOrder
        /\ Len(requested) =
              Min(MaxPage, (api_total[CurrentWindow] + PerPage - 1) \div PerPage)

\* the process is inside a window that it started at page 1 and whose
\* total_count is within the result cap
InWindowFromPageOne ==
    /\ pc \in {"search", "ingest", "update1", "update2", "after_period"}
    /\ api_total[CurrentWindow] <= MaxResults
    /\ IF requested = <<>> THEN page = 1 ELSE requested[1][1] = 1

\* C4 (amended): the pages are requested in the order 1, 2, ..., never more
\* than min(MaxPage, floor(total / PerPage) + 1) of them, and exactly that
\* many when every request is answered and no limit ends the window
C4_PagesRequested ==
    InWindowFromPageOne =>
        /\ PagesInOrder
        /\ Len(requested) <=
              Min(MaxPage, api_total[CurrentWindow] \div PerPage + 1)
        /\ (WindowLeft /\ AllAnswered /\ max_repos = 0) =>
              Len(requested) =
                 Min(MaxPage, api_total[CurrentWindow] \div PerPage + 1)

\* C4 witness: a window with total_count = 2 * PerPage has been left after
\* three requests
C4_Witness ==
    /\ WindowLeft
    /\ AllAnswered
    /\ max_repos = 0
    /\ api_total[CurrentWindow] = 2 * PerPage
    /\ Len(requested) = 3

\* C5 (as claimed): a running process works on the range it was started
\* with, whatever range the checkpoint it found records
C5_RequestedRangeCollected ==
    pc /= "idle" =>
        /\ state.start_date = IsoFormat(start_date)
        /\ state.end_date = IsoFormat(end_date)

\* C6 (as claimed): a run that repeats a completed run with the same inputs
\* and the checkpoint that run left adds no row to the store
C6_RerunAddsNothing == [][rerun => store' = store]_vars

\* C7 (as claimed): a first run with limit max_repos leaves at most
\* max_repos rows in the store
C7_LimitRespected ==
    (max_repos /= 0 /\ runs = 1) => Cardinality(store) <= max_repos

\* C8 (as claimed): a window is left after a failed request only when the
\* request before it was for the same page and failed as well
C8_FailedPageRetried ==
    (pc = "after_period" /\ Len(requested) > 0
       /\ ~requested[Len(requested)][2]) =>
        /\ Len(requested) >= 2
        /\ ~requested[Len(requested) - 1][2]
        /\ requested[Len(requested) - 1][1] = requested[Len(requested)][1]

\* C9 (as claimed): a run that finds an unreadable checkpoint stops without
\* collecting and leaves the file as it is
C9_CorruptCheckpointAborts ==
    load_failed => (state_file = Corrupt /\ first_fetch = NoPos)

\* C9 (amended): a run that finds an unreadable checkpoint starts a new
\* collection of the requested range from the reset state: it resumes
\* nothing, its checkpoint file holds the state of the new collection, and
\* its first request is for page 1 of window 0
C9_CorruptCheckpointRestarts ==
    load_failed =>
        /\ resumed_at = NoPos
        /\ first_fetch \in {NoPos, <<0, 1>>}
        /\ pc /= "idle" =>
              /\ state_file = Json(state)
              /\ state.start_date = IsoFormat(start_date)
              /\ state.end_date = IsoFormat(end_date)
              /\ pc /= "set_periods" =>
                    state.time_periods =
                       PeriodDicts(CalculateTimePeriods(start_date, end_date))

\* C9 witness: a run that found an unreadable checkpoint is ingesting a page
C9_Witness == load_failed /\ pc = "ingest" /\ state_file.kind = "json"

\* C10 (as claimed): a run that the operator interrupted has a nonzero exit
\* code
C10_InterruptExitsNonzero ==
    outcome = "interrupted" => exit_code /= ExitSuccess

\* ------------------------------------------- API client: the response cache
Max(a, b) == IF a >= b THEN a ELSE b

\* order of sorted(params.items())
ItemBefore(a, b) == a[1] < b[1] \/ (a[1] = b[1] /\ a[2] <= b[2])

\* _get_cache_path: the file name is the MD5 of the endpoint followed by the
\* sorted items of params (the model takes distinct keys to distinct files)
CacheKey(r) == <<r.endpoint, SortSeq(r.params, ItemBefore)>>

CacheKeys == {CacheKey(r) : r \in Requests}

\* the age test of _get_from_cache, without the test
CacheFresh_Always(e, n) == TRUE

\* the age test of _get_from_cache
CacheFresh(e, n) == ~(n - e.cache_time > CacheTtl)

\* _get_from_cache at time n: the stored document, or None
GetFromCache(files, k, n) ==
    IF files[k].kind = "absent" THEN NoDocument
    ELSE IF ~CacheFresh(files[k], n) THEN NoDocument
    ELSE files[k].data

\* "if cached_data:" in GitHubClient.request
IsCacheHit(files, k, n) ==
    Truthy(GetFromCache(files, k, n))

\* _save_to_cache at time n
SaveToCache(files, k, d, n) ==
    [files EXCEPT ![k] = [kind |-> "file", cache_time |-> n, data |-> d]]

\* ------------------------------------------------ API client: the token pool
\* GitHubTokenPool.__init__: the entry of one token
NewTokenInfo == [remaining |-> Quota, reset_time |-> 0, last_used |-> 0]

\* first loop of get_best_token: a token whose reset time has passed is
\* taken to have its full quota again
ResetPass(info, n) ==
    [t \in DOMAIN info |->
        IF n > info[t].reset_time
        THEN [info[t] EXCEPT !.remaining = Quota, !.reset_time = n + Hour]
        ELSE info[t]]

\* available_tokens of get_best_token
AvailableTokens(info) == {t \in DOMAIN info : info[t].remaining > 0}

\* the sort of get_best_token with the tie on remaining broken the other way
SortsBefore_Newest(info, a, b) ==
    \/ info[a].remaining > info[b].remaining
    \/ /\ info[a].remaining = info[b].remaining
       /\ info[a].last_used > info[b].last_used
    \/ /\ info[a].remaining = info[b].remaining
       /\ info[a].last_used = info[b].last_used
       /\ a <= b

\* available_tokens.sort(key=(-remaining, last_used)): a stable sort, so
\* equal keys stay in the order of the token list
SortsBefore(info, a, b) ==
    \/ info[a].remaining > info[b].remaining
    \/ /\ info[a].remaining = info[b].remaining
       /\ info[a].last_used < info[b].last_used
    \/ /\ info[a].remaining = info[b].remaining
       /\ info[a].last_used = info[b].last_used
       /\ a <= b

\* available_tokens[0] after the sort
FirstSorted(info, S) == CHOOSE a \in S : \A b \in S : SortsBefore(info, a, b)

\* min(token_info.items(), key=reset_time): the first minimum
EarliestReset(info) ==
    CHOOSE a \in DOMAIN info : \A b \in DOMAIN info :
        \/ info[a].reset_time < info[b].reset_time
        \/ info[a].reset_time = info[b].reset_time /\ a <= b

\* the wait loop of get_best_token: the seconds slept in total.  Each pass
\* sleeps min(30, remaining_wait) and takes 30 off remaining_wait: the
\* passes that sleep the full 30 seconds, then one pass for what is left.
SleepLoop(remaining_wait) ==
    (remaining_wait \div PollSeconds) * PollSeconds
    + (remaining_wait % PollSeconds)

\* get_best_token at time n.  raised: min() of an empty pool (ValueError);
\* now: the time at which the function returns.
GetBestToken(info, n) ==
    LET seen == ResetPass(info, n)
        available_tokens == AvailableTokens(seen)
    IN  IF available_tokens = {}
        THEN IF DOMAIN info = {}
             THEN [raised |-> TRUE, token |-> None, info |-> seen,
                   now |-> n, seen |-> seen, waited |-> FALSE]
             ELSE LET token == EarliestReset(seen)
                      wait_time == seen[token].reset_time - n
                  IN  [raised |-> FALSE, token |-> token, info |-> seen,
                       now |-> n + SleepLoop(Max(0, wait_time)),
                       seen |-> seen, waited |-> TRUE]
        ELSE LET token == FirstSorted(seen, available_tokens)
             IN  [raised |-> FALSE, token |-> token,
                  info |-> [seen EXCEPT ![token].last_used = n],
                  now |-> n, seen |-> seen, waited |-> FALSE]

\* update_token_info
UpdateTokenInfo(info, token, remaining, reset_time) ==
    IF token \in DOMAIN info
    THEN [info EXCEPT ![token].remaining = remaining,
                      ![token].reset_time = reset_time]
    ELSE info

\* GitHubAPI._get_client: select, then copy the rate-limit fields of the
\* selected client into the pool
GetClient(info, cl, n) ==
    LET g == GetBestToken(info, n)
    IN  IF g.raised THEN g
        ELSE [g EXCEPT !.info =
                 UpdateTokenInfo(g.info, g.token,
                                 cl[g.token].rate_limit_remaining,
                                 cl[g.token].rate_limit_reset)]

\* ---------------------------------------------- API client: client, server
\* GitHubClient.__init__: the rate-limit fields of a new client
NewClient == [rate_limit_remaining |-> Quota, rate_limit_reset |-> 0]

\* _wait_for_rate_limit without the test
WaitForRateLimit_Never(c, n) == n

\* _wait_for_rate_limit at time n: the time at which it returns
WaitForRateLimit(c, n) ==
    IF c.rate_limit_remaining <= 1
    THEN n + Max(0, c.rate_limit_reset - n) + 1
    ELSE n

\* _handle_rate_limit: the headers of a response, when it has them
HandleRateLimit(c, headers) ==
    IF headers = NoHeaders THEN c
    ELSE [rate_limit_remaining |-> headers[1],
          rate_limit_reset |-> headers[2]]

\* api.github.com, one token: quota left, end of the period, and the number
\* of requests received in the period
NewServer == [remaining |-> Quota, reset |-> 0, sends |-> 0]

\* the server starts a new period when the old one has ended
ServerPeriod(sv, n) ==
    IF n >= sv.reset
    THEN [remaining |-> Quota, reset |-> n + Hour, sends |-> 0]
    ELSE sv

\* what session.request can give at time n: no response ("error", a
\* RequestException; the request did not reach the server) when the network
\* is lossy, a rate-limit 403 when the quota is used up, else 200 with one
\* of docs, 404 or 500, each counted against the quota and carrying the
\* rate-limit headers
Responses(sv, n, docs, lossy) ==
    LET cur == ServerPeriod(sv, n)
        counted == [cur EXCEPT !.sends = @ + 1]
        served == [counted EXCEPT !.remaining = @ - 1]
    IN  (IF lossy
         THEN {[status |-> "error", body |-> EmptyDoc, headers |-> NoHeaders,
                server |-> sv]}
         ELSE {})
        \cup
        (IF cur.remaining = 0
         THEN {[status |-> "403", body |-> EmptyDoc,
                headers |-> <<0, cur.reset>>, server |-> counted]}
         ELSE {[status |-> "200", body |-> b,
                headers |-> <<served.remaining, served.reset>>,
                server |-> served] : b \in docs}
              \cup
              {[status |-> st, body |-> EmptyDoc,
                headers |-> <<served.remaining, served.reset>>,
                server |-> served] : st \in {"404", "500"}})

\* the except clause for HTTPError with 404 treated like any other status
HttpErrorResult_No404(status) ==
    IF status = "403"
    THEN [kind |-> "raise", value |-> "GitHubRateLimitError"]
    ELSE [kind |-> "raise", value |-> "GitHubAPIError"]

\* the except clause for HTTPError of GitHubClient.request
HttpErrorResult(status) ==
    IF status = "403"
    THEN [kind |-> "raise", value |-> "GitHubRateLimitError"]
    ELSE IF status = "404"
    THEN [kind |-> "return", value |-> EmptyDoc]
    ELSE [kind |-> "raise", value |-> "GitHubAPIError"]

\* what GitHubClient.request returns or raises for a response
ClientResult(resp) ==
    IF resp.status = "200" THEN [kind |-> "return", value |-> resp.body]
    ELSE IF resp.status = "error"
    THEN [kind |-> "raise", value |-> "GitHubAPIError"]
    ELSE HttpErrorResult(resp.status)

\* the retry test of GitHubAPI.request with no retry left
MayRetry_Never(a) == FALSE

\* "if attempt < retries - 1" of GitHubAPI.request
MayRetry(a) == a < Retries - 1

\* the sleep before the next attempt, in whole seconds and without the
\* random part: random.uniform(1, 3) after a rate-limit error,
\* 2 ** attempt + random.uniform(0, 1) otherwise
Pause(error, a) == IF error = "GitHubRateLimitError" THEN 1 ELSE 2 ^ a

\* ------------------------------------------------ API client: the actions
\* the search driver is not part of the specification of the API client
NoCollector ==
    /\ state_file = NoFile
    /\ store = {}
    /\ api_total = [w \in Windows |-> 0]
    /\ api_fail = {}
    /\ max_repos = 0
    /\ start_date = 0
    /\ end_date = 0
    /\ pc = "unused"
    /\ state = DefaultState
    /\ page = 1
    /\ collected_count = 0
    /\ total_count = None
    /\ items = {}
    /\ total_collected = 0
    /\ requested = <<>>
    /\ runs = 0
    /\ outcome = "none"
    /\ exit_code = ExitSuccess
    /\ load_failed = FALSE
    /\ resumed_at = NoPos
    /\ first_fetch = NoPos
    /\ rerun = FALSE
    /\ ranges_used = {}

\* GitHubAPI(tokens, cache_dir) has been constructed: a pool entry and a
\* client per token, an empty cache directory; the process runs at a time
\* later than the reset_time 0 of the new entries
ApiInit ==
    /\ NoCollector
    /\ NoIngest
    /\ NoEnrich
    /\ NoCall
    /\ tokens \in TokenLists
    /\ token_info = [t \in Toks(tokens) |-> NewTokenInfo]
    /\ clients = [t \in Toks(tokens) |-> NewClient]
    /\ server = [t \in Toks(tokens) |-> NewServer]
    /\ now = Hour
    /\ cache = [k \in CacheKeys |-> NoEntry]
    /\ api_pc = "idle"
    /\ attempt = 0
    /\ req = <<>>
    /\ calls = 0
    /\ api_result = NoResult
    /\ hist = [NoHist EXCEPT !.stored = [k \in CacheKeys |-> NoEntry]]
    /\ threads = <<>>

\* the save of GitHubClient.request: after raise_for_status, for a GET
\* with use_cache
SavesResponse(status, use_cache) == status = "200" /\ use_cache

\* what every attempt records; g is what _get_client gave
Recorded(g) ==
    [hist EXCEPT !.token = g.token,
                 !.seen = g.seen,
                 !.pool_waited = g.waited,
                 !.acquired_at = g.now,
                 !.looked_at = g.now,
                 !.prev_status = hist.status,
                 !.prev_token = IF hist.tries = 0 THEN None ELSE hist.token,
                 !.prev_other = hist.other]

\* a caller calls GitHubAPI.request("GET", endpoint, params, use_cache), gap
\* seconds after the previous call returned
BeginRequest(r, use_cache, gap) ==
    /\ api_pc = "idle"
    /\ calls < MaxCalls
    /\ api_pc' = "attempt"
    /\ req' = [endpoint |-> r.endpoint, params |-> r.params,
               use_cache |-> use_cache]
    /\ attempt' = 0
    /\ calls' = calls + 1
    /\ now' = now + gap
    /\ api_result' = NoResult
    /\ hist' = [hist EXCEPT !.status = "none", !.from_cache = FALSE,
                            !.gate_waited = FALSE, !.tries = 0,
                            !.prev_status = "none", !.prev_token = None,
                            !.prev_other = FALSE, !.other = FALSE,
                            !.other_seen = FALSE]
    /\ UNCHANGED <<tokens, token_info, clients, server, cache, threads>>
    /\ UNCHANGED beyond_api

\* one pass of the loop of GitHubAPI.request with an empty pool: min() in
\* get_best_token raises ValueError, which no except clause catches
AttemptRaises ==
    /\ api_pc = "attempt"
    /\ LET g == GetClient(token_info, clients, now)
       IN  /\ g.raised
           /\ token_info' = g.info
           /\ hist' = [hist EXCEPT !.token = None, !.seen = g.seen]
    /\ api_pc' = "idle"
    /\ api_result' = "ValueError"
    /\ UNCHANGED <<tokens, clients, server, now, cache, attempt, req, calls,
                   threads>>
    /\ UNCHANGED beyond_api

\* one pass of the loop of GitHubAPI.request: _get_client, then
\* GitHubClient.request returns the cached document
AttemptCacheHit ==
    /\ api_pc = "attempt"
    /\ LET g == GetClient(token_info, clients, now)
       IN  /\ ~g.raised
           /\ req.use_cache
           /\ IsCacheHit(cache, CacheKey(req), g.now)
           /\ token_info' = g.info
           /\ now' = g.now + 1
           /\ api_result' = GetFromCache(cache, CacheKey(req), g.now)
           /\ hist' = [Recorded(g) EXCEPT
                          !.gate_waited = FALSE, !.from_cache = TRUE,
                          !.status = "none", !.headers = NoHeaders,
                          !.other = FALSE]
    /\ api_pc' = "idle"
    /\ UNCHANGED <<tokens, clients, server, cache, attempt, req, calls,
                   threads>>
    /\ UNCHANGED beyond_api

\* one pass of the loop of GitHubAPI.request: _get_client, then
\* GitHubClient.request waits for the rate limit if it has to, sends the
\* request, reads the headers of the response, saves a 200 body to the cache
\* and returns or raises; GitHubAPI.request returns, sleeps and goes to the
\* next attempt, or raises.  docs: the documents the server may answer
\* with; lossy: requests can fail without a response.
AttemptSend(docs, lossy) ==
    /\ api_pc = "attempt"
    /\ LET g == GetClient(token_info, clients, now)
       IN
       /\ ~g.raised
       /\ ~(req.use_cache /\ IsCacheHit(cache, CacheKey(req), g.now))
       /\ LET c == g.token
              t_send == WaitForRateLimit(clients[c], g.now)
              t_done == t_send + 1
          IN  \E resp \in Responses(server[c], t_send, docs, lossy) :
                LET result == ClientResult(resp)
                    other ==
                        /\ resp.status = "403"
                        /\ \E u \in DOMAIN token_info \ {c} :
                              /\ g.info[u].remaining > 0
                              /\ ServerPeriod(server[u], t_done).remaining > 0
                    saves == SavesResponse(resp.status, req.use_cache)
                    file == [kind |-> "file", cache_time |-> t_done,
                             data |-> resp.body]
                IN  /\ token_info' = g.info
                    /\ clients' = [clients EXCEPT
                                     ![c] = HandleRateLimit(@, resp.headers)]
                    /\ server' = [server EXCEPT ![c] = resp.server]
                    /\ cache' = IF saves
                                THEN SaveToCache(cache, CacheKey(req),
                                                 resp.body, t_done)
                                ELSE cache
                    /\ hist' = [Recorded(g) EXCEPT
                                  !.gate_waited = t_send > g.now,
                                  !.from_cache = FALSE,
                                  !.status = resp.status,
                                  !.headers = resp.headers,
                                  !.tries = @ + 1,
                                  !.other = other,
                                  !.other_seen = @ \/ other,
                                  !.stored = IF resp.status = "200"
                                                /\ req.use_cache
                                             THEN [@ EXCEPT
                                                    ![CacheKey(req)] = file]
                                             ELSE @]
                    /\ IF result.kind = "return"
                       THEN /\ api_pc' = "idle"
                            /\ api_result' = result.value
                            /\ now' = t_done
                            /\ UNCHANGED attempt
                       ELSE IF MayRetry(attempt)
                       THEN /\ api_pc' = "attempt"
                            /\ api_result' = NoResult
                            /\ now' = t_done + Pause(result.value, attempt)
                            /\ attempt' = attempt + 1
                       ELSE /\ api_pc' = "idle"
                            /\ api_result' = result.value
                            /\ now' = t_done
                            /\ UNCHANGED attempt
    /\ UNCHANGED <<tokens, req, calls, threads>>
    /\ UNCHANGED beyond_api

\* the quota of token t is used up from outside the process (another
\* process runs with the same token) while a call is under way
ExternalUse(t) ==
    /\ api_pc = "attempt"
    /\ ~hist.drained
    /\ server[t].remaining > 0
    /\ server' = [server EXCEPT ![t].remaining = 0]
    /\ hist' = [hist EXCEPT !.drained = TRUE]
    /\ UNCHANGED <<tokens, token_info, clients, now, cache, api_pc, attempt,
                   req, calls, api_result, threads>>
    /\ UNCHANGED beyond_api

\* Specification of the token pool, the clients and the retry loop: calls
\* for one endpoint, with and without the cache, and a server that answers
\* every 200 with the same document
ApiNext ==
    \/ \E use_cache \in BOOLEAN, gap \in {0, Hour} :
          BeginRequest(SearchRequest, use_cache, gap)
    \/ AttemptRaises
    \/ AttemptCacheHit
    \/ AttemptSend({"a"}, TRUE)
    \/ \E t \in Toks(tokens) : ExternalUse(t)

ApiSpec == ApiInit /\ [][ApiNext]_vars

\* a cache file that an earlier process wrote when the clock was at 0
OldFile == [kind |-> "file", cache_time |-> 0, data |-> "a"]

\* Specification of the response cache: one token, a cache directory that
\* is empty or holds a file of an earlier process, calls for requests with
\* two cache keys at different times, and a server that answers every
\* request and whose documents change
CacheInit ==
    /\ NoCollector
    /\ NoIngest
    /\ NoEnrich
    /\ NoCall
    /\ tokens = <<1>>
    /\ token_info = [t \in Toks(tokens) |-> NewTokenInfo]
    /\ clients = [t \in Toks(tokens) |-> NewClient]
    /\ server = [t \in Toks(tokens) |-> NewServer]
    /\ now = Hour
    /\ cache \in {[k \in CacheKeys |-> NoEntry],
                  [k \in CacheKeys |->
                      IF k = CacheKey(SearchRequest) THEN OldFile
                      ELSE NoEntry]}
    /\ api_pc = "idle"
    /\ attempt = 0
    /\ req = <<>>
    /\ calls = 0
    /\ api_result = NoResult
    /\ hist = [NoHist EXCEPT !.stored = cache]
    /\ threads = <<>>

CacheNext ==
    \/ \E c \in CacheCalls, gap \in Gaps : BeginRequest(c[1], c[2], gap)
    \/ AttemptCacheHit
    \/ AttemptSend(Bodies, FALSE)

CacheSpec == CacheInit /\ [][CacheNext]_vars

\* ------------------------------------- token pool: two concurrent callers
\* GitHubTokenPool has no lock.  Two threads call GitHubAPI._get_client on
\* one GitHubAPI object; a thread can be suspended between any two
\* statements, so each step below is one statement (one pass of the for
\* loop of get_best_token counts as a statement).
Callers == {"A", "B"}

\* a thread that has not called _get_client yet, with the locals of
\* get_best_token
NewThread ==
    [pc |-> "start", now |-> None, i |-> 0, available_tokens |-> <<>>,
     token |-> None]

\* a pool entry whose quota is used up, as update_token_info leaves it
UsedUp == [remaining |-> 0, reset_time |-> 2 * Hour, last_used |-> Hour - 1]

\* a client whose last response reported a used-up quota
UsedUpClient == [rate_limit_remaining |-> 0, rate_limit_reset |-> 2 * Hour]

\* two tokens; entries and clients are new or have a used-up quota
PoolInit ==
    /\ NoCollector
    /\ NoIngest
    /\ NoEnrich
    /\ NoCall
    /\ tokens = <<1, 2>>
    /\ token_info \in [Toks(tokens) -> {NewTokenInfo, UsedUp}]
    /\ clients \in [Toks(tokens) -> {NewClient, UsedUpClient}]
    /\ server = [t \in Toks(tokens) |-> NewServer]
    /\ now = Hour
    /\ cache = [k \in CacheKeys |-> NoEntry]
    /\ api_pc = "unused"
    /\ attempt = 0
    /\ req = <<>>
    /\ calls = 0
    /\ api_result = NoResult
    /\ hist = NoHist
    /\ threads = [c \in Callers |-> NewThread]

\* what no step of a thread changes
PoolFrame ==
    /\ UNCHANGED <<tokens, clients, server, cache, api_pc, attempt, req,
                   calls, api_result, hist>>
    /\ UNCHANGED beyond_api

\* get_best_token: now = datetime.now().timestamp(); available_tokens = []
AcquireBegin(c) ==
    /\ threads[c].pc = "start"
    /\ threads' = [threads EXCEPT ![c] =
                      [@ EXCEPT !.pc = "scan", !.now = now, !.i = 1]]
    /\ now' = now + 1
    /\ UNCHANGED token_info
    /\ PoolFrame

\* get_best_token: one pass of the for loop, for the token at position i
ScanToken(c) ==
    LET th == threads[c]
        t == th.i
        entry == IF th.now > token_info[t].reset_time
                 THEN [token_info[t] EXCEPT !.remaining = Quota,
                                            !.reset_time = th.now + Hour]
                 ELSE token_info[t]
        seen == [remaining |-> entry.remaining,
                 last_used |-> entry.last_used]
    IN  /\ th.pc = "scan"
        /\ token_info' = [token_info EXCEPT ![t] = entry]
        /\ threads' = [threads EXCEPT ![c] =
               [@ EXCEPT !.i = t + 1,
                         !.pc = IF t = Len(tokens) THEN "choose" ELSE "scan",
                         !.available_tokens =
                             IF entry.remaining > 0 THEN (t :> seen) @@ @
                             ELSE @]]
        /\ UNCHANGED now
        /\ PoolFrame

\* get_best_token after the loop: wait for the earliest reset and return
\* its token, or sort, take the first token and write its last_used
ChooseToken(c) ==
    LET th == threads[c]
        available == DOMAIN th.available_tokens
    IN  /\ th.pc = "choose"
        /\ IF available = {}
           THEN LET token == EarliestReset(token_info)
                    wait_time == token_info[token].reset_time - th.now
                IN  /\ now' = Max(now, th.now + SleepLoop(Max(0, wait_time)))
                    /\ threads' = [threads EXCEPT ![c] =
                           [@ EXCEPT !.pc = "update", !.token = token]]
                    /\ UNCHANGED token_info
           ELSE LET token == FirstSorted(th.available_tokens, available)
                IN  /\ token_info' =
                           [token_info EXCEPT ![token].last_used = th.now]
                    /\ threads' = [threads EXCEPT ![c] =
                           [@ EXCEPT !.pc = "update", !.token = token]]
                    /\ UNCHANGED now
        /\ PoolFrame

\* update_token_info, first assignment: remaining
UpdateRemaining(c) ==
    LET th == threads[c]
    IN  /\ th.pc = "update"
        /\ token_info' = [token_info EXCEPT ![th.token].remaining =
                             clients[th.token].rate_limit_remaining]
        /\ threads' = [threads EXCEPT ![c] = [@ EXCEPT !.pc = "update2"]]
        /\ UNCHANGED now
        /\ PoolFrame

\* update_token_info, second assignment: reset_time; _get_client returns
UpdateResetTime(c) ==
    LET th == threads[c]
    IN  /\ th.pc = "update2"
        /\ token_info' = [token_info EXCEPT ![th.token].reset_time =
                             clients[th.token].rate_limit_reset]
        /\ threads' = [threads EXCEPT ![c] = [@ EXCEPT !.pc = "done"]]
        /\ UNCHANGED now
        /\ PoolFrame

PoolNext ==
    \E c \in Callers :
        \/ AcquireBegin(c)
        \/ ScanToken(c)
        \/ ChooseToken(c)
        \/ UpdateRemaining(c)
        \/ UpdateResetTime(c)

PoolSpec == PoolInit /\ [][PoolNext]_vars

\* ------------------------------------------------- API client: the claims
\* the tokens that had remaining > 0 when the last selection sorted them
SeenAvailable == {u \in DOMAIN hist.seen : hist.seen[u].remaining > 0}

\* the last pass of the loop selected a token by sorting
Selected == hist.token /= None /\ ~hist.pool_waited

\* C11: when at least one token has remaining > 0 after the reset pass,
\* get_best_token returns one whose remaining is maximal among them, and
\* that was used least recently among those with the maximal remaining.
C11_BestTokenSelected ==
    (Selected /\ SeenAvailable /= {}) =>
        /\ hist.token \in SeenAvailable
        /\ \A u \in SeenAvailable :
              /\ hist.seen[u].remaining <= hist.seen[hist.token].remaining
              /\ hist.seen[u].remaining = hist.seen[hist.token].remaining
                    => hist.seen[hist.token].last_used
                          <= hist.seen[u].last_used

\* two tokens tie on remaining and the second of the list, used longer ago,
\* is returned
C11_Witness ==
    /\ Selected
    /\ Len(tokens) = 2
    /\ hist.token = 2
    /\ hist.seen[1].remaining = hist.seen[2].remaining
    /\ hist.seen[2].last_used < hist.seen[1].last_used

\* C12: a pool of at least one token never fails to return one of its
\* tokens; when none has remaining capacity it returns the one with the
\* earliest reset_time, not before that time; an empty token list is
\* rejected at construction, so no call is ever made with it.
C12_AcquireNeverFails ==
    /\ Len(tokens) = 0 => calls = 0
    /\ api_result /= "ValueError"
    /\ hist.token /= None => hist.token \in Toks(tokens)
    /\ (hist.token /= None /\ hist.pool_waited) =>
          /\ \A u \in DOMAIN hist.seen :
                hist.seen[hist.token].reset_time <= hist.seen[u].reset_time
          /\ hist.acquired_at >= hist.seen[hist.token].reset_time

\* requests the server received in the current periods of all tokens
RECURSIVE SentInPeriod(_)
SentInPeriod(k) == IF k = 0 THEN 0 ELSE server[k].sends + SentInPeriod(k - 1)

\* C13: with K tokens of quota Q each, used by this process only, no token
\* receives more than Q requests in one reset period (at most K*Q in all),
\* and no request is sent on a token whose quota is used up: the server
\* never has to answer with a rate-limit 403.
C13_QuotaRespected ==
    ~hist.drained =>
        /\ \A t \in Toks(tokens) : server[t].sends <= Quota
        /\ SentInPeriod(Len(tokens)) <= Len(tokens) * Quota
        /\ hist.status /= "403"

\* with two tokens the client has waited for a reset before sending
C13_Witness ==
    /\ ~hist.drained
    /\ Len(tokens) = 2
    /\ hist.gate_waited
    /\ hist.status = "200"

\* C14: after a response with rate-limit headers and before the next token
\* is acquired, the pool's remaining and reset_time of the token used equal
\* the header values.
C14_PoolFollowsHeaders ==
    hist.headers /= NoHeaders =>
        /\ token_info[hist.token].remaining = hist.headers[1]
        /\ token_info[hist.token].reset_time = hist.headers[2]

\* C15: after a rate-limit 403 on one token while another token has
\* remaining > 0, the retry uses a different token, and the caller never
\* receives the rate-limit error.
C15_RateLimitRotates ==
    /\ (hist.prev_status = "403" /\ hist.prev_other)
          => hist.token /= hist.prev_token
    /\ api_result = "GitHubRateLimitError" => ~hist.other_seen

\* the statuses after which GitHubClient.request raises
Failing == {"403", "500", "error"}

\* C17: one call sends at most Retries HTTP requests; it returns the body
\* of the first 200, goes on after a failed attempt while attempts remain,
\* and raises only when the last attempt has failed.
C17_BoundedRetries ==
    /\ hist.tries <= Retries
    /\ (hist.status \in Failing /\ hist.tries < Retries)
          => api_pc = "attempt" /\ api_result = NoResult
    /\ (hist.status \in Failing /\ hist.tries = Retries)
          => /\ api_pc = "idle"
             /\ api_result \in {"GitHubRateLimitError", "GitHubAPIError"}
    /\ api_result \in {"GitHubRateLimitError", "GitHubAPIError"}
          => hist.tries = Retries
    /\ hist.status = "200" => api_pc = "idle" /\ api_result \in Bodies

\* the third attempt of a call is the first that succeeds
C17_Witness == hist.tries = Retries /\ hist.status = "200"

\* C18: a 404 makes the call return the empty document at once: no further
\* attempt, no error, and the cache is left as it was.
C18_NotFoundReturnsEmpty ==
    [][(hist'.status = "404" /\ hist'.tries = hist.tries + 1) =>
          /\ api_pc' = "idle"
          /\ api_result' = EmptyDoc
          /\ cache' = cache]_vars

\* a GET with use_cache got a 404 on the retry after a failed attempt
C18_Witness ==
    /\ hist.status = "404"
    /\ hist.tries = 2
    /\ req.use_cache
    /\ api_result = EmptyDoc

\* C19: a GET answered from the cache does not touch the token pool: no
\* token is acquired, no waiting for a reset, and token_info stays as it is.
C19_CacheHitLeavesPool ==
    [][(~hist.from_cache /\ hist'.from_cache) =>
          /\ token_info' = token_info
          /\ ~hist'.pool_waited]_vars

\* the last call was answered from the cache
CacheHit == api_pc = "idle" /\ hist.from_cache

\* C20: a cache hit returns the body of the most recent 200 response stored
\* under the key of the request, and that response is at most CacheTtl
\* seconds old; the cache holds nothing but the last stored 200 response of
\* each key, so no failed response creates or overwrites an entry.
C20_CacheSound ==
    /\ CacheHit =>
          /\ hist.stored[CacheKey(req)].kind = "file"
          /\ api_result = hist.stored[CacheKey(req)].data
          /\ hist.looked_at - hist.stored[CacheKey(req)].cache_time
                <= CacheTtl
    /\ cache = hist.stored

\* a hit returns the second document stored under its key, the first one
\* having expired
C20_Witness ==
    /\ CacheHit
    /\ calls = MaxCalls
    /\ api_result = "b"
    /\ req = [endpoint |-> SearchRequest.endpoint,
              params |-> <<<<2, 1>>, <<1, 1>>>>, use_cache |-> TRUE]

\* thread c has read or written an entry of the pool in get_best_token or
\* in update_token_info and has not finished that function
InPoolOperation(c) ==
    \/ threads[c].pc = "scan" /\ threads[c].i > 1
    \/ threads[c].pc = "choose"
    \/ threads[c].pc = "update2"

\* C16: the accesses to the pool are mutually exclusive: no thread reads or
\* writes an entry while another thread is in the middle of get_best_token
\* or update_token_info.
C16_PoolAccessSerialized ==
    \A a, b \in Callers :
        a /= b => ~(InPoolOperation(a) /\ InPoolOperation(b))

\* ------------------------------------------ store and ingestion: operators
\* the store, the owner processor and the record of what happened, as one
\* value the functions below pass on; raised: an exception is on its way
\* up; details: process_organization returned the fetched profile
World ==
    [contributors |-> contributors, organizations |-> organizations,
     repositories |-> repositories, session |-> session, clock |-> clock,
     known_owners |-> known_owners, batch_owners |-> batch_owners,
     org_cache |-> org_cache, contributor_cache |-> contributor_cache,
     ing |-> ing, raised |-> FALSE, details |-> FALSE]

\* a statement of the session raises: always when the session is inactive,
\* and when the commit fails; nothing of the failed transaction is stored
Raise(w, after) ==
    [w EXCEPT !.raised = TRUE,
              !.session = IF w.session = "inactive" THEN @ ELSE after,
              !.ing.write_failed = TRUE]

\* GitHubDatabase.insert_contributor: update the row with this id or add it
InsertContributor(w, login, profile, fails, after) ==
    IF w.session = "inactive" \/ fails THEN Raise(w, after)
    ELSE IF w.contributors[login].kind = "row"
    THEN [w EXCEPT !.contributors[login].profile = @ \/ profile]
    ELSE [w EXCEPT !.contributors[login] =
                       [kind |-> "row", profile |-> profile,
                        at |-> w.clock + 1],
                   !.clock = @ + 1]

\* GitHubDatabase.insert_organization: update the row with this id or add it
InsertOrganization(w, login, profile, fails, after) ==
    IF w.session = "inactive" \/ fails THEN Raise(w, after)
    ELSE IF w.organizations[login].kind = "row"
    THEN [w EXCEPT !.organizations[login].profile = @ \/ profile]
    ELSE [w EXCEPT !.organizations[login] =
                       [kind |-> "row", profile |-> profile,
                        at |-> w.clock + 1],
                   !.clock = @ + 1]

\* self._known_owners.add(owner_login) after the profile has been inserted
KnownAfterInsert_Forgotten(known, login) == known

KnownAfterInsert(known, login) == known \cup {login}

\* process_contributor from the request on: get_contributor, cache, insert,
\* known owners; every exception ends in the warning of the except clause
FetchContributor(w, login, answer, fault, after) ==
    LET r == [w EXCEPT !.ing.requested_known = @ \/ login \in w.known_owners]
    IN  CASE answer = "error" ->
                [r EXCEPT !.ing.failed_fetch = @ \cup {login}]
          [] answer = "empty" -> r
          [] answer = "ok" ->
                LET c == [r EXCEPT !.contributor_cache = @ \cup {login},
                                   !.ing.fetched[login] = @ + 1]
                    i == InsertContributor(c, login, TRUE, fault = "profile",
                                           after)
                IN  IF i.raised THEN [i EXCEPT !.raised = FALSE]
                    ELSE [i EXCEPT !.known_owners =
                                       KnownAfterInsert(@, login),
                                   !.ing.inserted = @ \cup {login}]

\* OwnerProcessor.process_contributor
ProcessContributor(w, login, answer, fault, after) ==
    IF login \in w.batch_owners THEN w
    ELSE LET b == [w EXCEPT !.batch_owners = @ \cup {login}]
         IN  IF login \in b.known_owners THEN b
             ELSE IF b.session = "inactive" THEN Raise(b, after)
             ELSE IF b.contributors[login].kind = "row"
             THEN [b EXCEPT !.known_owners = @ \cup {login}]
             ELSE IF login \in b.contributor_cache THEN b
             ELSE FetchContributor(b, login, answer, fault, after)

\* process_organization from the request on; the fallback after an empty
\* answer or an exception is the owner data of the summary
FetchOrganization(w, login, answer, fault, after) ==
    LET r == [w EXCEPT !.ing.requested_known = @ \/ login \in w.known_owners]
    IN  CASE answer = "error" ->
                [r EXCEPT !.ing.failed_fetch = @ \cup {login}]
          [] answer = "empty" -> r
          [] answer = "ok" ->
                LET c == [r EXCEPT !.org_cache = @ \cup {login},
                                   !.ing.fetched[login] = @ + 1]
                    i == InsertOrganization(c, login, TRUE, fault = "profile",
                                            after)
                IN  IF i.raised THEN [i EXCEPT !.raised = FALSE]
                    ELSE [i EXCEPT !.known_owners =
                                       KnownAfterInsert(@, login),
                                   !.ing.inserted = @ \cup {login},
                                   !.details = TRUE]

\* OwnerProcessor.process_organization
ProcessOrganization(w, login, answer, fault, after) ==
    LET b == [w EXCEPT !.batch_owners = @ \cup {login}]
    IN  IF login \in b.known_owners
        THEN [b EXCEPT !.details = login \in b.org_cache]
        ELSE IF b.session = "inactive" THEN Raise(b, after)
        ELSE IF b.organizations[login].kind = "row"
        THEN [b EXCEPT !.known_owners = @ \cup {login}]
        ELSE IF login \in b.org_cache THEN [b EXCEPT !.details = TRUE]
        ELSE FetchOrganization(b, login, answer, fault, after)

\* OwnerProcessor.process_repository_owner
ProcessRepositoryOwner(w, s, answer, fault, after) ==
    LET owner_login == RepoOwner(s.id)
    IN  IF owner_login = NoOwner THEN w
        ELSE IF OwnerType(owner_login) = "Organization"
        THEN ProcessOrganization(w, owner_login, answer, fault, after)
        ELSE ProcessContributor(w, owner_login, answer, fault, after)

\* update_repository with a search summary: the summary's fields replace
\* the row's, the aggregates (no key in a summary) keep their value
UpdateRepository(row, s) == [row EXCEPT !.counts = s.counts]

\* the row insert_repository creates from a search summary
NewRepository(s, at) ==
    [kind |-> "row",
     owner_id |-> RepoOwner(s.id),
     organization_id |-> IF OwnerType(RepoOwner(s.id)) = "Organization"
                         THEN RepoOwner(s.id) ELSE NoOwner,
     counts |-> s.counts,
     aggregates |-> None,
     at |-> at]

\* the owner row insert_repository writes before the repository row
OwnerInserted_Skipped(w, login, fails, after) ==
    IF w.session = "inactive" \/ fails THEN Raise(w, after) ELSE w

OwnerInserted(w, login, fails, after) ==
    InsertContributor(w, login, FALSE, fails, after)

\* GitHubDatabase.insert_repository
InsertRepository(w, s, fault, after) ==
    LET owner_login == RepoOwner(s.id)
    IN  IF w.session = "inactive" THEN Raise(w, after)
        ELSE IF w.repositories[s.id].kind = "row"
        THEN IF fault = "repository" THEN Raise(w, after)
             ELSE [w EXCEPT !.repositories[s.id] = UpdateRepository(@, s)]
        ELSE IF owner_login = NoOwner THEN w
        ELSE
          LET o == OwnerInserted(w, owner_login, fault = "owner", after)
              g == IF o.raised \/ OwnerType(owner_login) /= "Organization"
                   THEN o
                   ELSE InsertOrganization(o, owner_login, o.details,
                                           fault = "organization", after)
          IN  IF g.raised THEN g
              ELSE IF fault = "repository" THEN Raise(g, after)
              ELSE [g EXCEPT
                      !.repositories[s.id] = NewRepository(s, g.clock + 1),
                      !.clock = @ + 1,
                      !.ing.written = @ \cup {s.id}]

\* check_repository_exists at the head of _process_repository
RepositoryExists(w, repo_id) == w.repositories[repo_id].kind = "row"

\* _process_repository writing the summary over the row that exists
ProcessOneRepository_Replace(w, s, answer, fault, after) ==
    IF w.session = "inactive" THEN Raise(w, after)
    ELSE IF RepoOwner(s.id) = NoOwner THEN w
    ELSE [w EXCEPT !.repositories[s.id] = NewRepository(s, w.clock + 1),
                   !.clock = @ + 1]

\* RepositoryCollector._process_repository: the try block; what it raises
\* is logged by the except clause
ProcessOneRepository(w, s, answer, fault, after) ==
    IF w.session = "inactive" THEN Raise(w, after)
    ELSE IF RepositoryExists(w, s.id) THEN w
    ELSE LET r == [w EXCEPT !.batch_owners = {}]
             p == ProcessRepositoryOwner(r, s, answer, fault, after)
         IN  IF p.raised THEN p ELSE InsertRepository(p, s, fault, after)

\* the opaque node id of a repository (a base64 string in the source; the
\* numbers above every id stand for it)
NodeId(i) == 100 + i

NodeIds == {NodeId(i) : i \in RepoIds}

\* int(database_id_value) of map_and_update_stats: ValueError for a node id
IntOf(v) == IF v \in NodeIds THEN None ELSE v

\* map_and_update_stats: the first of the keys databaseId, database_id,
\* repo_id, id that is present and not None
IdValue(stat) ==
    IF stat.database_id /= None THEN stat.database_id ELSE stat.repo_id

\* a result of fetch_repo_stats
StatOf(node, database_id) ==
    [repo_id |-> NodeId(node), database_id |-> database_id,
     calculated |-> Stat]

\* map_and_update_stats: the id the UPDATE of one element is keyed on, None
\* when the element is skipped (no integer id, or no row with that id)
UpdateKey(rows, stat) ==
    IF IntOf(IdValue(stat)) /= None /\ rows[IntOf(IdValue(stat))].kind = "row"
    THEN IntOf(IdValue(stat)) ELSE None

\* map_and_update_stats: UPDATE repositories SET ... WHERE id = ? for every
\* element with a key, in one transaction
MapAndUpdateStats(rows, stats) ==
    [i \in DOMAIN rows |->
        IF \E n \in DOMAIN stats : UpdateKey(rows, stats[n]) = i
        THEN [rows[i] EXCEPT !.aggregates = Stat]
        ELSE rows[i]]

\* -------------------------------------------- store and ingestion: actions
\* the world a step ends with becomes the state
Stored(w) ==
    /\ contributors' = w.contributors
    /\ organizations' = w.organizations
    /\ repositories' = w.repositories
    /\ session' = w.session
    /\ clock' = w.clock
    /\ known_owners' = w.known_owners
    /\ batch_owners' = w.batch_owners
    /\ org_cache' = w.org_cache
    /\ contributor_cache' = w.contributor_cache
    /\ ing' = [w.ing EXCEPT !.raised = w.raised]

\* what an action of the ingestion leaves alone
IngestFrame == UNCHANGED <<collectorvars, apivars, callvars, checkpoint, en_pc, en_runs,
                           batches, idx, start_batch_idx, en_attempt, success,
                           en_results, all_stats, failed_batches>>

\* GitHubDatabase() on an empty database and OwnerProcessor(api, db): no
\* rows, nothing preloaded
IngestInit ==
    /\ NoCollector
    /\ NoApi
    /\ NoEnrich
    /\ NoCall
    /\ contributors = [w \in Owners |-> NoRow]
    /\ organizations = [w \in Owners |-> NoRow]
    /\ repositories = [i \in RepoIds |-> NoRow]
    /\ session = "ok"
    /\ clock = 0
    /\ known_owners = {}
    /\ batch_owners = {}
    /\ org_cache = {}
    /\ contributor_cache = {}
    /\ ing_pc = "idle"
    /\ repositories_data = <<>>
    /\ unknown_logins = {}
    /\ position = 0
    /\ batches_done = 0
    /\ ing = NoIng

\* _process_repositories_batch up to the filter of process_contributors_batch:
\* the logins of the User owners of the page that are not known
BeginBatch(p) ==
    /\ ing_pc = "idle"
    /\ batches_done < MaxBatches
    /\ repositories_data' = p
    /\ LET owners == {RepoOwner(p[n].id) : n \in DOMAIN p}
           contributor_logins == {w \in owners \cap Owners :
                                     OwnerType(w) = "User"}
           unknown == contributor_logins \ known_owners
       IN  /\ unknown_logins' = unknown
           /\ ing_pc' = IF unknown = {} THEN "repos" ELSE "prefetch"
           /\ ing' = [ing EXCEPT !.failed_fetch = {},
                                 !.unknown = (owners \cap Owners) \ known_owners,
                                 !.written = {},
                                 !.write_failed = FALSE,
                                 !.after_failure = {},
                                 !.last = NoSummary,
                                 !.existed = FALSE,
                                 !.raised = FALSE]
    /\ position' = 1
    /\ UNCHANGED <<contributors, organizations, repositories, session, clock,
                   known_owners, batch_owners, org_cache, contributor_cache,
                   batches_done, en>>
    /\ IngestFrame

\* process_contributors_batch: process_contributor for one unknown login;
\* an exception of the existence check ends the batch
PrefetchContributor(login, answer, fault, after) ==
    /\ ing_pc = "prefetch"
    /\ login \in unknown_logins
    /\ LET w == ProcessContributor(World, login, answer, fault, after)
       IN  /\ Stored(w)
           /\ IF w.raised
              THEN /\ unknown_logins' = {}
                   /\ ing_pc' = "idle"
                   /\ batches_done' = batches_done + 1
              ELSE /\ unknown_logins' = unknown_logins \ {login}
                   /\ ing_pc' = IF unknown_logins' = {} THEN "repos"
                                ELSE "prefetch"
                   /\ UNCHANGED batches_done
    /\ UNCHANGED <<repositories_data, position, en>>
    /\ IngestFrame

\* one pass of the loop over the page: _process_repository(repo_data)
IngestRepository(answer, fault, after) ==
    /\ ing_pc = "repos"
    /\ LET s == repositories_data[position]
           w == [World EXCEPT !.ing.last = s,
                              !.ing.existed = RepositoryExists(World, s.id)]
           r == ProcessOneRepository(w, s, answer, fault, after)
       IN  Stored([r EXCEPT !.ing.after_failure =
                       IF ing.write_failed /\ s.id \in r.ing.written
                       THEN @ \cup {s.id} ELSE @])
    /\ IF position = Len(repositories_data)
       THEN /\ ing_pc' = "idle"
            /\ batches_done' = batches_done + 1
            /\ UNCHANGED position
       ELSE /\ position' = position + 1
            /\ UNCHANGED <<ing_pc, batches_done>>
    /\ UNCHANGED <<repositories_data, unknown_logins, en>>
    /\ IngestFrame

\* the process ends and a new one starts: a new session, and
\* _preload_known_owners reads every login of both owner tables
Restart ==
    /\ ing_pc = "idle"
    /\ session' = "ok"
    /\ known_owners' = {w \in Owners : \/ contributors[w].kind = "row"
                                       \/ organizations[w].kind = "row"}
    /\ batch_owners' = {}
    /\ org_cache' = {}
    /\ contributor_cache' = {}
    /\ ing' = [ing EXCEPT !.fetched = [w \in Owners |-> 0],
                          !.inserted = {}]
    /\ UNCHANGED <<contributors, organizations, repositories, clock, ing_pc,
                   repositories_data, unknown_logins, position, batches_done,
                   en>>
    /\ IngestFrame

\* cleanup_orphaned_owners: the owners without repository are deleted
CleanupOrphanedOwners ==
    /\ ing_pc = "idle"
    /\ contributors' =
          [w \in Owners |->
              IF \E i \in RepoIds : /\ repositories[i].kind = "row"
                                    /\ repositories[i].owner_id = w
              THEN contributors[w] ELSE NoRow]
    /\ organizations' =
          [w \in Owners |->
              IF \E i \in RepoIds : /\ repositories[i].kind = "row"
                                    /\ repositories[i].organization_id = w
              THEN organizations[w] ELSE NoRow]
    /\ UNCHANGED <<ing, repositories, session, clock, known_owners, batch_owners,
                   org_cache, contributor_cache, ing_pc, repositories_data,
                   unknown_logins, position, batches_done, en>>
    /\ IngestFrame

\* the argument lists map_and_update_stats is called with: one result, with
\* or without databaseId
StatsLists == {<<StatOf(1, d)>> : d \in {1, None}}

\* map_and_update_stats(db_path, repo_stats) on the store; the enrichment
\* keeps a record of the argument
UpdaterCall(stats, recorded) ==
    /\ ing_pc \in {"idle", "unused"}
    /\ en_pc \in {"idle", "unused"}
    /\ repositories' = MapAndUpdateStats(repositories, stats)
    /\ en' = IF recorded
             THEN [en EXCEPT !.stats = stats,
                             !.updated = {i \in RepoIds :
                                 repositories'[i] /= repositories[i]}]
             ELSE en
    /\ UNCHANGED <<ing, contributors, organizations, session, clock, known_owners,
                   batch_owners, org_cache, contributor_cache, ing_pc,
                   repositories_data, unknown_logins, position, batches_done>>
    /\ IngestFrame

IngestNext ==
    \/ \E p \in Pages : BeginBatch(p)
    \/ \E login \in Owners, answer \in FetchOutcomes, fault \in Faults,
          after \in SessionStates :
          PrefetchContributor(login, answer, fault, after)
    \/ \E answer \in FetchOutcomes, fault \in Faults, after \in SessionStates :
          IngestRepository(answer, fault, after)
    \/ Restart
    \/ CleanupOrphanedOwners
    \/ \E stats \in StatsLists : UpdaterCall(stats, FALSE)

IngestSpec == IngestInit /\ [][IngestNext]_vars

\* ----------------------------------------------------------- enrichment
\* for attempt in range(3) of fetch_repo_stats
Attempts == 3

\* --batch-size of the script, which is also the handler's batch_size
\* (default 50), scaled
BatchSize == 1

\* get_repos_to_enrich without force: the ids of the rows with an aggregate
\* that is NULL
ReposToEnrich(rows) ==
    LET Needs(i) == rows[i].kind = "row" /\ rows[i].aggregates = None
    IN  SelectSeq([i \in RepoIds |-> i], Needs)

\* mutant of Batches: only the batches of full length
Batches_WholeOnly(repos, n) ==
    [k \in 1..(Len(repos) \div n) |->
        SubSeq(repos, (k - 1) * n + 1, k * n)]

\* repos[i:i+n] for i in range(0, len(repos), n), in main and in
\* GraphQLHandler._batch
Batches(repos, n) ==
    [k \in 1..((Len(repos) + n - 1) \div n) |->
        SubSeq(repos, (k - 1) * n + 1, Min(k * n, Len(repos)))]

\* one pass of the try block of fetch_repo_stats over a batch whose
\* repositories are answered as answers says: a timeout of the request
\* leaves results alone; otherwise the loop over response.items() appends
\* one result per repository, in the order of the batch, until
\* repo_data.get("defaultBranchRef", {}) gives None and .get("target") raises
\* AttributeError, which except Exception takes as a failed attempt
Extracted(batch, answers) ==
    LET NoBranch(n) == answers[batch[n]] = "no_branch"
        stop == IF \E n \in DOMAIN batch : NoBranch(n)
                THEN CHOOSE n \in DOMAIN batch :
                         NoBranch(n) /\ \A m \in 1..(n - 1) : ~NoBranch(m)
                ELSE Len(batch) + 1
    IN  IF \E n \in DOMAIN batch : answers[batch[n]] = "timeout"
        THEN [appended |-> <<>>, raised |-> TRUE]
        ELSE [appended |->
                 [n \in 1..(stop - 1) |->
                     StatOf(batch[n],
                            IF answers[batch[n]] = "data" THEN batch[n]
                            ELSE None)],
              raised |-> stop <= Len(batch)]

\* "if not success: failed_batches.append(batch)"
FailedAfter(failed, batch, ok) == IF ok THEN failed ELSE Append(failed, batch)

\* the repositories of a list of batches
ReposOf(bs) == UNION {{bs[k][n] : n \in DOMAIN bs[k]} : k \in DOMAIN bs}

\* the sequence s written r times
RECURSIVE Times(_, _)
Times(s, r) == IF r = 0 THEN <<>> ELSE s \o Times(s, r - 1)

\* for attempt in range(3) over one batch, when the first fails requests
\* get a 5xx or a network error and the later ones the answers: what the
\* loop has appended to results and the value of success after it.  A pass
\* that raises is made again by every attempt that is left, and each of
\* them appends again.
AttemptLoop(batch, answers, fails) ==
    LET left == Attempts - Min(fails, Attempts)
        pass == Extracted(batch, answers)
    IN  IF left = 0 THEN [results |-> <<>>, success |-> FALSE]
        ELSE IF pass.raised
        THEN [results |-> Times(pass.appended, left), success |-> FALSE]
        ELSE [results |-> pass.appended, success |-> TRUE]

\* the loop of fetch_repo_stats over all_batches, no checkpoint file being
\* there at the call
RECURSIVE FetchBatches(_, _, _)
FetchBatches(all_batches, answers, fails) ==
    IF all_batches = <<>> THEN [results |-> <<>>, failed_batches |-> <<>>]
    ELSE LET n == Len(all_batches)
             before == FetchBatches(SubSeq(all_batches, 1, n - 1), answers,
                                    fails)
             tries == AttemptLoop(all_batches[n], answers, fails)
         IN  [results |-> before.results \o tries.results,
              failed_batches |-> FailedAfter(before.failed_batches,
                                             all_batches[n], tries.success)]

\* fetch_repo_stats(repos) of a handler with batch_size n: the pair
\* (results, failed_batches) it returns
FetchRepoStats(repos, n, answers, fails) ==
    FetchBatches(Batches(repos, n), answers, fails)

\* the loop of main over its batches: all_stats.extend(stats) and
\* failed_batches.extend(batch_fails) with what the handler returns for
\* each batch
RECURSIVE MainLoop(_, _, _, _)
MainLoop(bs, n, answers, fails) ==
    IF bs = <<>> THEN [all_stats |-> <<>>, failed_batches |-> <<>>]
    ELSE LET before == MainLoop(SubSeq(bs, 1, Len(bs) - 1), n, answers, fails)
             out == FetchRepoStats(bs[Len(bs)], n, answers, fails)
         IN  [all_stats |-> before.all_stats \o out.results,
              failed_batches |-> before.failed_batches \o out.failed_batches]

\* a run of main with --batch-size n over a store whose rows are all
\* selected: the store and the failed batches at its end, and the results
\* it has fetched.  The store is the one of the start, map_and_update_stats
\* being called with the undefined name db_path.
RunOutcome(rows, n, answers, fails) ==
    LET repos == ReposToEnrich(rows)
        loop == MainLoop(Batches(repos, n), n, answers, fails)
    IN  [store |-> rows,
         failed_ids |-> ReposOf(loop.failed_batches),
         fetched |-> {loop.all_stats[k].repo_id :
                         k \in DOMAIN loop.all_stats}]

\* what an action of the enrichment leaves alone
EnrichFrame == UNCHANGED <<collectorvars, apivars, callvars, contributors,
                           organizations, session, clock, known_owners,
                           batch_owners, org_cache, contributor_cache, ing_pc,
                           repositories_data, unknown_logins, position,
                           batches_done, ing>>

\* a store with the repositories 1 and 2 and their owners, written by the
\* ingestion and not enriched; no checkpoint file
EnrichInit ==
    /\ NoCollector
    /\ NoApi
    /\ NoCall
    /\ contributors = [w \in Owners |->
                          [kind |-> "row", profile |-> TRUE,
                           at |-> IF w = "u" THEN 1 ELSE 3]]
    /\ organizations = [w \in Owners |->
                           IF w = "o"
                           THEN [kind |-> "row", profile |-> TRUE, at |-> 4]
                           ELSE NoRow]
    /\ repositories = [i \in RepoIds |->
                          IF i = 1 THEN NewRepository([id |-> 1, counts |-> 1], 2)
                          ELSE IF i = 2
                          THEN NewRepository([id |-> 2, counts |-> 1], 5)
                          ELSE NoRow]
    /\ session = "ok"
    /\ clock = 5
    /\ known_owners = {}
    /\ batch_owners = {}
    /\ org_cache = {}
    /\ contributor_cache = {}
    /\ ing_pc = "unused"
    /\ repositories_data = <<>>
    /\ unknown_logins = {}
    /\ position = 0
    /\ batches_done = 0
    /\ ing = NoIng
    /\ checkpoint = None
    /\ en_pc = "idle"
    /\ en_runs = 0
    /\ batches = <<>>
    /\ idx = 0
    /\ start_batch_idx = 0
    /\ en_attempt = 0
    /\ success = FALSE
    /\ en_results = <<>>
    /\ all_stats = <<>>
    /\ failed_batches = <<>>
    /\ en = NoEn

\* main of enrich_repository_stats.py up to the loop over the batches;
\* sys.exit(0) when nothing is to be enriched
EnrichStart ==
    /\ en_pc = "idle"
    /\ en_runs < MaxRuns
    /\ en_runs' = en_runs + 1
    /\ LET repos == ReposToEnrich(repositories)
       IN  IF repos = <<>>
           THEN /\ en' = [NoEn EXCEPT !.stored = checkpoint,
                                      !.finished = TRUE]
                /\ UNCHANGED <<en_pc, batches>>
           ELSE /\ en' = [NoEn EXCEPT !.stored = checkpoint]
                /\ en_pc' = "call"
                /\ batches' = Batches(repos, BatchSize)
    /\ idx' = 0
    /\ all_stats' = <<>>
    /\ failed_batches' = <<>>
    /\ UNCHANGED <<checkpoint, start_batch_idx, en_attempt, success,
                   en_results, repositories>>
    /\ EnrichFrame

\* handler.fetch_repo_stats(batch) up to the retry loop: the checkpoint is
\* read; the batch main passes is not longer than batch_size, so all_batches
\* has the one element with batch_idx 0, which is skipped when the
\* checkpoint holds more than 0
CallFetch ==
    /\ en_pc = "call"
    /\ start_batch_idx' = IF checkpoint = None THEN 0 ELSE checkpoint
    /\ en_results' = <<>>
    /\ success' = FALSE
    /\ en_attempt' = 0
    /\ IF 0 < start_batch_idx'
       THEN /\ en_pc' = "remove"
            /\ en' = [en EXCEPT !.skipped = @ \cup {idx},
                                !.failures = 0, !.rate_limited = 0]
       ELSE /\ en_pc' = "attempt"
            /\ en' = [en EXCEPT !.failures = 0, !.rate_limited = 0]
    /\ UNCHANGED <<checkpoint, en_runs, batches, idx, all_stats,
                   failed_batches, repositories>>
    /\ EnrichFrame

\* one pass of for attempt in range(3): the request and what follows from
\* its response
FetchAttempt(resp) ==
    /\ en_pc = "attempt"
    /\ LET batch == batches[idx + 1]
           answers == [r \in RepoIds |->
                          IF resp /= "no_branch" THEN resp
                          ELSE IF r = batch[Len(batch)] THEN "no_branch"
                          ELSE "data"]
           pass == Extracted(batch, answers)
       IN  IF resp \in {"data", "node_id_only"}
           THEN /\ en_results' = en_results \o pass.appended
                /\ success' = TRUE
                /\ en_pc' = "checkpoint"
                /\ en' = [en EXCEPT !.node_only =
                             IF resp = "node_id_only" THEN @ \cup {idx}
                             ELSE @]
                /\ UNCHANGED en_attempt
           ELSE /\ en_attempt' = en_attempt + 1
                /\ en_pc' = IF en_attempt + 1 = Attempts THEN "checkpoint"
                            ELSE "attempt"
                /\ en' = IF resp = "rate_limit"
                         THEN [en EXCEPT !.rate_limited = @ + 1]
                         ELSE [en EXCEPT !.failures = @ + 1]
                /\ en_results' = IF resp = "no_branch"
                                 THEN en_results \o pass.appended
                                 ELSE en_results
                /\ UNCHANGED success
    /\ UNCHANGED <<checkpoint, en_runs, batches, idx, start_batch_idx,
                   all_stats, failed_batches, repositories>>
    /\ EnrichFrame

\* after the retry loop: batch_idx + 1 is written to the checkpoint file
\* and a batch without success is appended to the failed batches (the list
\* of the call, which main appends to its own at the return)
WriteCheckpoint ==
    /\ en_pc = "checkpoint"
    /\ LET batch_idx == 0
       IN  checkpoint' = batch_idx + 1
    /\ failed_batches' = FailedAfter(failed_batches, batches[idx + 1], success)
    /\ en' = [en EXCEPT
                !.reported = Append(@, [idx |-> idx,
                                        outcome |-> IF success THEN "success"
                                                    ELSE "failed",
                                        failures |-> en.failures,
                                        rate_limited |-> en.rate_limited]),
                !.fetched = IF success THEN @ \cup {idx} ELSE @]
    /\ en_pc' = "remove"
    /\ UNCHANGED <<en_runs, batches, idx, start_batch_idx, en_attempt, success,
                   en_results, all_stats, repositories>>
    /\ EnrichFrame

\* the end of fetch_repo_stats and the return to main: the checkpoint file is
\* removed, the results are appended to all_stats, the loop of main goes on
RemoveCheckpoint ==
    /\ en_pc = "remove"
    /\ checkpoint' = None
    /\ all_stats' = all_stats \o en_results
    /\ en_results' = <<>>
    /\ idx' = idx + 1
    /\ en_pc' = IF idx + 1 = Len(batches) THEN "update" ELSE "call"
    /\ UNCHANGED <<en_runs, batches, start_batch_idx, en_attempt, success,
                   failed_batches, repositories, en>>
    /\ EnrichFrame

\* main after the loop: the results with a database_id of the selected
\* repositories are kept, and map_and_update_stats(db_path, ...) raises
\* NameError, db_path being no name of the script: nothing is written, and
\* the statements after the call, which write the failure file, are not
\* reached
UpdateStats ==
    /\ en_pc = "update"
    /\ LET db_id_set == ReposOf(batches)
           InSet(stat) == stat.database_id \in db_id_set
       IN  en' = [en EXCEPT !.stats = SelectSeq(all_stats, InSet),
                            !.updated = {},
                            !.finished = TRUE]
    /\ en_pc' = "idle"
    /\ UNCHANGED <<checkpoint, en_runs, batches, idx, start_batch_idx,
                   en_attempt, success, en_results, all_stats, failed_batches,
                   repositories>>
    /\ EnrichFrame

\* the process is killed: what it held in memory is lost, the checkpoint
\* file and the store stay
Crash ==
    /\ en_pc \in {"call", "attempt", "checkpoint", "remove", "update"}
    /\ en_pc' = "idle"
    /\ batches' = <<>>
    /\ idx' = 0
    /\ start_batch_idx' = 0
    /\ en_attempt' = 0
    /\ success' = FALSE
    /\ en_results' = <<>>
    /\ all_stats' = <<>>
    /\ failed_batches' = <<>>
    /\ UNCHANGED <<checkpoint, en_runs, repositories, en>>
    /\ EnrichFrame

EnrichNext ==
    \/ EnrichStart
    \/ CallFetch
    \/ \E resp \in GraphQLResponses : FetchAttempt(resp)
    \/ WriteCheckpoint
    \/ RemoveCheckpoint
    \/ UpdateStats
    \/ Crash
    \/ \E stats \in StatsLists : UpdaterCall(stats, TRUE)

EnrichSpec == EnrichInit /\ [][EnrichNext]_vars

\* --------------------------------------------- store and ingestion: claims
\* C21: every repository row has a non-null owner reference, the owner row
\* (and the organization row, if there is one) exists and was written
\* before the repository row.
C21_OwnerBeforeRepository ==
    \A i \in RepoIds :
        repositories[i].kind = "row" =>
            /\ repositories[i].owner_id /= NoOwner
            /\ contributors[repositories[i].owner_id].kind = "row"
            /\ contributors[repositories[i].owner_id].at < repositories[i].at
            /\ repositories[i].organization_id /= NoOwner =>
                  /\ organizations[repositories[i].organization_id].kind
                        = "row"
                  /\ organizations[repositories[i].organization_id].at
                        < repositories[i].at

\* the repository of an organization whose profile could not be fetched is
\* in the store, with the owner rows made from the summary
C21_Witness ==
    /\ repositories[2].kind = "row"
    /\ ~organizations["o"].profile
    /\ ~contributors["o"].profile

\* C22: no profile is requested for a login that is in the known-owners
\* set; a login that was fetched and inserted is in the set; no login is
\* fetched with success more than once by one process.
C22_KnownOwnersNotFetched ==
    /\ ~ing.requested_known
    /\ ing.inserted \subseteq known_owners
    /\ \A w \in Owners : ing.fetched[w] <= 1

\* the organization was fetched once; a later page with a repository of it,
\* known by then, was ingested without another request
C22_Witness ==
    /\ ing_pc = "idle"
    /\ batches_done = MaxBatches
    /\ ing.fetched["o"] = 1
    /\ ing.unknown = {}
    /\ ing.last.id = 2
    /\ ing.written = {2}

\* C23: when the profile fetch of an unknown owner fails, none of its
\* repositories on the page is written while the page is processed, and
\* the repositories of the other owners on the page are written.
C23_FailedOwnerSkipped ==
    /\ \A i \in ing.written :
          RepoOwner(i) \notin ing.failed_fetch \cap ing.unknown
    /\ (ing_pc = "idle" /\ ~ing.write_failed) =>
          \A n \in DOMAIN repositories_data :
              LET i == repositories_data[n].id
              IN  (RepoOwner(i) /= NoOwner
                     /\ RepoOwner(i) \notin ing.failed_fetch)
                      => repositories[i].kind = "row"

\* C24: after a second summary of a repository has been ingested there is
\* one row for its id and the counts of the row are those of the second
\* summary.
C24_SecondSummaryWins ==
    (ing.last /= NoSummary /\ ing.existed /\ ~ing.raised) =>
        /\ repositories[ing.last.id].kind = "row"
        /\ repositories[ing.last.id].counts = ing.last.counts

\* a step of the ingestion leaves the aggregates of every stored row alone
IngestKeepsAggregates ==
    ing_pc \in {"prefetch", "repos"} =>
        \A i \in RepoIds :
            repositories[i].kind = "row" =>
                /\ repositories'[i].kind = "row"
                /\ repositories'[i].aggregates = repositories[i].aggregates

\* C25: the ingestion of a page never changes the enrichment aggregates of
\* a repository that is in the store.
C25_AggregatesPreserved == [][IngestKeepsAggregates]_vars

\* a summary of an enriched repository has been ingested again
C25_Witness ==
    /\ ing.last.id = 1
    /\ ing.existed
    /\ ~ing.raised
    /\ repositories[1].aggregates = Stat

\* C26: after a store write has failed while a page is ingested, no further
\* repository of that page is written, and the session stays usable for
\* the following pages.
C26_FailureAbortsPage ==
    /\ ing.after_failure = {}
    /\ session = "ok"

\* ------------------------------------------------------ enrichment: claims
\* C27: a batch is reported as failed only after 3 attempts have failed with
\* a network error or a 5xx response; a rate-limit 403 uses up no attempt.
C27_RateLimitNoAttempt ==
    \A n \in DOMAIN en.reported :
        en.reported[n].outcome = "failed" =>
            en.reported[n].failures = Attempts

\* the batches of main's list with a lower index than the checkpoint the
\* run found are skipped, the others are not
SkipsBelowStored ==
    /\ \A i \in en.skipped : en.stored /= None /\ i < en.stored
    /\ \A n \in DOMAIN en.reported :
          en.stored = None \/ en.reported[n].idx >= en.stored

\* C28: after the batch with index i has completed the checkpoint file
\* holds i + 1; a restart skips the batches with a lower index than the
\* stored value and no other; after a run has come to its end there is no
\* checkpoint file.
C28_CheckpointIsNextIndex ==
    /\ (en_pc = "remove" /\ idx \notin en.skipped) => checkpoint = idx + 1
    /\ SkipsBelowStored
    /\ en.finished => checkpoint = None

\* C29: when the checkpoint file holds k, the results of every batch with
\* a lower index that was fetched with success (and with databaseId) are
\* in the store.
C29_CheckpointImpliesCommitted ==
    checkpoint /= None =>
        \A i \in en.fetched \ en.node_only :
            (i < checkpoint /\ i + 1 \in DOMAIN batches) =>
                \A n \in DOMAIN batches[i + 1] :
                    repositories[batches[i + 1][n]].aggregates = Stat

\* C30: map_and_update_stats changes only rows whose id is the databaseId
\* of a result; a batch answered with the node id only is reported as
\* failed.
C30_DatabaseIdOnly ==
    /\ en.updated \subseteq
          {en.stats[n].database_id : n \in DOMAIN en.stats}
    /\ \A n \in DOMAIN en.reported :
          en.reported[n].idx \in en.node_only =>
              en.reported[n].outcome = "failed"

\* ------------------------------------------------ response cache: claim 40
\* an HTTP request is sent although the cache holds, under the key of the
\* request, a file that was fresh when the call looked into the cache
SentDespiteFreshFile ==
    /\ hist'.tries > hist.tries
    /\ req.use_cache
    /\ cache[CacheKey(req)].kind = "file"
    /\ CacheFresh(cache[CacheKey(req)], hist'.looked_at)

\* C40: after a GET with use_cache has stored its response, the same GET
\* within the following CacheTtl seconds is answered without an HTTP
\* request, whatever the stored body is.
C40_FreshEntryNoRequest == [][~SentDespiteFreshFile]_vars

\* --------------------------------------------- search driver: claims 37, 38
\* a step inside a run does not lower current_period_index
IndexMonotone ==
    (pc /= "idle" /\ pc' /= "idle") =>
        state'.current_period_index >= state.current_period_index

\* a window that was started at page 1 gets at most MaxPage requests
RequestsCapped ==
    (Len(requested) > 0 /\ requested[1][1] = 1) => Len(requested) <= MaxPage

\* the steps of the process of a run
RunStep ==
    \/ SetTimePeriods
    \/ LoopTop
    \/ Search
    \/ ProcessBatch
    \/ UpdateCollected
    \/ NextPage
    \/ AfterPeriod

\* the search driver with a process that is scheduled as long as it runs
\* and a search endpoint that answers every request
LiveSpec == Spec /\ WF_vars(RunStep)

\* C37: during a run current_period_index never decreases, a window that
\* is started at page 1 is left after at most MaxPage requests, and every
\* run ends.
C37_RunTerminates ==
    /\ [][IndexMonotone]_vars
    /\ []RequestsCapped
    /\ [](pc /= "idle" => <>(pc = "idle"))

\* the last window of a run is left after MaxPage requests
C37_Witness ==
    /\ pc = "after_period"
    /\ ~HasNextPeriod(state)
    /\ state.current_period_index = 1
    /\ Len(requested) = MaxPage
    /\ requested[1][1] = 1

\* the persisted count has reached the limit and the step requests a page,
\* writes to the store or goes on to the next window
StepBeyondLimit ==
    /\ pc /= "idle"
    /\ LimitReached(max_repos, state.repositories_collected)
    /\ \/ Len(requested') > Len(requested)
       \/ store' /= store
       \/ /\ pc' /= "idle"
          /\ state'.current_period_index /= state.current_period_index

\* C38: once the persisted repositories_collected has reached max_repos the
\* run requests and ingests no further page and does not go on to another
\* window, also when it was resumed from a checkpoint.
C38_NothingBeyondLimit == [][~StepBeyondLimit]_vars

\* --------------------------------------------- enrichment: claims 31 to 39
\* a run of the script has come to its end and has worked on batches
RunEnded ==
    /\ en_pc = "idle"
    /\ en.finished
    /\ batches /= <<>>
    /\ Len(en.reported) + Cardinality(en.skipped) = Len(batches)

\* a batch of the run was reported as failed
SomeFailed == \E n \in DOMAIN en.reported : en.reported[n].outcome = "failed"

\* the repositories of the batches of the run that were fetched with
\* success and with databaseId
FetchedRepos ==
    UNION {{batches[i + 1][n] : n \in DOMAIN batches[i + 1]} :
              i \in en.fetched \ en.node_only}

\* C31: after a run in which no batch has failed, every selected
\* repository has its three aggregates and there is no checkpoint file.
C31_RunEnrichesAll ==
    (RunEnded /\ ~SomeFailed) =>
        /\ checkpoint = None
        /\ \A i \in ReposOf(batches) :
              repositories[i].aggregates /= None
              /\ repositories[i].aggregates >= 0

\* C32: when a batch has failed, the results of the other batches are in
\* the store and the failure file holds the ids of the repositories of the
\* failed batches and no other.
C32_FailureFile ==
    (RunEnded /\ SomeFailed) =>
        /\ \A i \in FetchedRepos : repositories[i].aggregates /= None
        /\ en.failure_file = ReposOf(failed_batches)

\* --------------------------------------------- functions looked at alone
\* a store in which every repository is selected for enrichment
AllSelected ==
    [i \in RepoIds |-> NewRepository([id |-> i, counts |-> 1], 2)]

\* the enrichment of AllSelected: an answer of the endpoint for every
\* repository, the number of requests per batch that fail before the
\* endpoint answers, and a batch size
EnrichCalls ==
    {[fn |-> "enrich", answers |-> a, fails |-> f, size |-> n] :
        a \in [RepoIds -> RepoAnswers], f \in 0..Attempts,
        n \in 1..Cardinality(RepoIds)}

\* what a call leaves alone
CallFrame ==
    UNCHANGED <<collectorvars, apivars, ingestvars, enrichvars, args>>

\* handler.fetch_repo_stats(repos) with the whole selection
FetchRepoStatsCall ==
    /\ args.fn = "enrich"
    /\ returned.fn = "none"
    /\ returned' = [fn |-> "fetch_repo_stats",
                    out |-> FetchRepoStats(ReposToEnrich(AllSelected),
                                           args.size, args.answers,
                                           args.fails)]
    /\ CallFrame

\* main with --batch-size 1 and main with --batch-size args.size, over the
\* same store and with the same answers
MainCall ==
    /\ args.fn = "enrich"
    /\ returned.fn = "none"
    /\ returned' = [fn |-> "main",
                    one |-> RunOutcome(AllSelected, 1, args.answers,
                                       args.fails),
                    many |-> RunOutcome(AllSelected, args.size, args.answers,
                                        args.fails)]
    /\ CallFrame

\* the repositories of the batches of size n that hold a repository of ids
BatchMates(rows, n, ids) ==
    LET bs == Batches(ReposToEnrich(rows), n)
    IN  UNION {{bs[k][m] : m \in DOMAIN bs[k]} :
                  k \in {j \in DOMAIN bs :
                            \E m \in DOMAIN bs[j] : bs[j][m] \in ids}}

C39_ResultsDisjointFromFailed ==
    returned.fn = "fetch_repo_stats" =>
        LET results == returned.out.results
        IN  /\ \A i, j \in DOMAIN results :
                  i /= j => results[i].repo_id /= results[j].repo_id
            /\ \A i \in DOMAIN results :
                  results[i].repo_id \notin
                      {NodeId(r) : r \in ReposOf(returned.out.failed_batches)}

\* ------------------------------------------------- the windows, alone
\* instants per day: datetime and timedelta resolve a microsecond
\* (86,400,000,000 per day in the source, scaled down)
TicksPerDay == 10

\* timedelta(seconds=x) keeps the microsecond nearest to x, ties to even:
\* a / n as a whole number of instants
RoundDiv(a, n) ==
    LET q == a \div n
        r == a % n
    IN  IF 2 * r < n THEN q
        ELSE IF 2 * r > n THEN q + 1
        ELSE IF q % 2 = 0 THEN q ELSE q + 1

\* mutant of NumSubperiods: one more than the quotient rounded up
NumSubperiods_Ceil(results_count) ==
    ((results_count + MaxResults - 1) \div MaxResults) + 1

\* "num_subperiods = (results_count // max_results) + 1"
NumSubperiods(results_count) == (results_count \div MaxResults) + 1

\* mutant of SubPeriods: the last sub-window is as long as the others
SubPeriods_Unclamped(start, end, n) ==
    LET subperiod == RoundDiv(end - start, n)
    IN  [i \in 1..n |->
            <<start + (i - 1) * subperiod, start + i * subperiod>>]

\* the loop of _adjust_period_size: n sub-windows of
\* timedelta(seconds=total_seconds / n) each, the last one ending at end
SubPeriods(start, end, n) ==
    LET subperiod == RoundDiv(end - start, n)
    IN  [i \in 1..n |->
            <<start + (i - 1) * subperiod,
              IF i = n THEN end ELSE start + i * subperiod>>]

\* RepositoryCollector._adjust_period_size, instants counted from the
\* earliest start date
AdjustPeriodSize(period, results_count) ==
    IF results_count <= MaxResults THEN <<period>>
    ELSE SubPeriods(period[1], period[2], NumSubperiods(results_count))

\* the created qualifier of _search_repositories_in_period:
\* created:{start_date.isoformat()}..{end_date.isoformat()}
CreatedQualifier(period) == <<IsoFormat(period[1]), IsoFormat(period[2])>>

\* a repository created at t satisfies the qualifier: the search endpoint
\* reads a..b as from a to b, both included
Matches(qualifier, t) ==
    /\ FromIsoFormat(qualifier[1]) <= t
    /\ t <= FromIsoFormat(qualifier[2])

\* ranges of whole days, as the command line gives them
CallRanges ==
    {<<s, e>> : s \in {0, PeriodDays},
                e \in {1, PeriodDays, PeriodDays + 15, 2 * PeriodDays,
                       2 * PeriodDays + 15}}

\* the partitioning of a range, in days
PeriodCalls ==
    {[fn |-> "periods", period |-> r] : r \in {x \in CallRanges : x[1] < x[2]}}

\* the subdivision of a window of 1, 15 or 30 days, in instants, for a
\* total_count at, below and above the multiples of the result cap
AdjustCalls ==
    {[fn |-> "adjust",
      period |-> <<s * TicksPerDay, (s + d) * TicksPerDay>>,
      results_count |-> c] :
        s \in {0, PeriodDays}, d \in {1, 15, PeriodDays},
        c \in {0, MaxResults, MaxResults + 1, 2 * MaxResults - 1,
               2 * MaxResults, 2 * MaxResults + 1, 3 * MaxResults}}

\* _calculate_time_periods(start_date, end_date)
CalculateTimePeriodsCall ==
    /\ args.fn = "periods"
    /\ returned.fn = "none"
    /\ returned' = [fn |-> "periods",
                    out |-> CalculateTimePeriods(args.period[1],
                                                 args.period[2])]
    /\ CallFrame

\* _adjust_period_size(period, results_count)
AdjustPeriodSizeCall ==
    /\ args.fn = "adjust"
    /\ returned.fn = "none"
    /\ returned' = [fn |-> "adjust",
                    out |-> AdjustPeriodSize(args.period,
                                             args.results_count)]
    /\ CallFrame

\* a list of windows has been returned
WindowsReturned == returned.fn \in {"periods", "adjust"}

\* C34: no creation time satisfies the search queries of two windows of
\* one list.
C34_FiltersDisjoint ==
    WindowsReturned =>
        \A i, j \in DOMAIN returned.out :
            i /= j =>
                \A t \in args.period[1]..args.period[2] :
                    ~(/\ Matches(CreatedQualifier(returned.out[i]), t)
                      /\ Matches(CreatedQualifier(returned.out[j]), t))

\* the length of a window
Duration(w) == w[2] - w[1]

\* C35 as it is stated: above the cap the subdivision returns
\* ceil(total_count / cap) + 1 sub-windows of equal duration, else the
\* window unchanged.
C35_SubdivisionAsClaimed ==
    returned.fn = "adjust" =>
        IF args.results_count > MaxResults
        THEN /\ Len(returned.out) =
                    ((args.results_count + MaxResults - 1) \div MaxResults) + 1
             /\ \A i, j \in DOMAIN returned.out :
                    Duration(returned.out[i]) = Duration(returned.out[j])
        ELSE returned.out = <<args.period>>

\* C35: above the cap the subdivision returns floor(total_count / cap) + 1
\* sub-windows; all but the last have the duration of the window divided by
\* their number, rounded to the resolution of time, and the last has what
\* is left (the same when the division is exact); up to the cap the window
\* is returned unchanged.
C35_SubdivisionCount ==
    returned.fn = "adjust" =>
        IF args.results_count > MaxResults
        THEN LET n == (args.results_count \div MaxResults) + 1
                 d == RoundDiv(Duration(args.period), n)
             IN  /\ Len(returned.out) = n
                 /\ \A i \in 1..(n - 1) : Duration(returned.out[i]) = d
                 /\ Duration(returned.out[n]) =
                        Duration(args.period) - (n - 1) * d
                 /\ Duration(args.period) % n = 0 =>
                        Duration(returned.out[n]) = d
        ELSE returned.out = <<args.period>>

\* a window of one day with one result more than twice the cap: three
\* sub-windows, the last longer than the others
C35_Witness ==
    /\ returned.fn = "adjust"
    /\ args.results_count = 2 * MaxResults + 1
    /\ Duration(args.period) = TicksPerDay
    /\ Len(returned.out) = 3
    /\ Duration(returned.out[3]) /= Duration(returned.out[1])

CallInit ==
    /\ NoCollector
    /\ NoApi
    /\ NoIngest
    /\ NoEnrich
    /\ args \in EnrichCalls \cup PeriodCalls \cup AdjustCalls
    /\ returned = [fn |-> "none"]

CallNext ==
    \/ FetchRepoStatsCall
    \/ MainCall
    \/ CalculateTimePeriodsCall
    \/ AdjustPeriodSizeCall

CallSpec == CallInit /\ [][CallNext]_vars

====
